---- MODULE Spec2Model ----
(***************************************************************************)
(* MemoClaw CLI: the argument parser (src/args.ts) and the output          *)
(* configuration (src/output.ts).                                          *)
(*                                                                         *)
(* A JavaScript string is a sequence of one-character strings, so that     *)
(* indexOf, slice, startsWith, the kebab-case regex and parseInt are       *)
(* computed character by character.  Indices are 1-based here; the code's  *)
(* 0-based cursor i is i - 1.                                              *)
(***************************************************************************)
EXTENDS Integers, Sequences, FiniteSets, TLC

VARIABLES
  args,     \* parseArgs: the argument list (input, never modified)
  i,        \* parseArgs: the cursor (1-based)
  result,   \* parseArgs: the ParsedArgs object, key -> value
  pc,       \* parseArgs: "run" (in the while loop), "done" (returned), "thrown" (TypeError)
  cls,      \* history: per token, how the loop handled it ("none", "flag", "value", "pos")
  binds,    \* history: the assignments result[key] = val made by the latest iteration
  at        \* history: the index of the token the latest iteration started on (0: none yet)

VARIABLES
  outputJson,      \* output.ts module state, as declared on lines 13-20
  outputQuiet,
  outputPretty,
  outputFormat,
  outputTruncate,
  outputFile,
  noTruncate,
  outputField,
  files,           \* the file system: the files written so far, name -> lines
  outErr,          \* the latest configureOutput call threw (fs.writeFileSync failed)
  lastBare         \* history: the latest configureOutput call carried no field, format, truncate or output

VARIABLES
  stdout,          \* the lines written with console.log, in order
  stderr,          \* the lines written with console.error or process.stderr.write, in order
  stage,           \* output module under test: "idle", "boot" (not configured yet), "ready"
  ncalls,          \* the number of renderer calls made so far
  lastCall         \* history: the latest renderer call and the streams and files before it

VARIABLES
  mpc,             \* main: the position in the entry point ("idle" when it is not running)
  exitCode,        \* main: the argument of process.exit, -1 while the process runs
  trace,           \* history: the startup steps main has taken, in order
  timeoutMs,       \* http.ts _timeoutMs as main has set it
  sent,            \* the request bodies the handlers have passed to request(), in order
  err              \* main: the message of the error thrown inside the try block (Undefined: none)

VARIABLES
  cpc,             \* a data command: the position in the handler ("idle" when none is running)
  server,          \* the memories the server holds, in listing order
  calls,           \* the request() calls the handler has made so far, in order
  loc              \* the handler's local variables

VARIABLES
  rpc,             \* request(): the position in the function ("idle" when it is not running)
  timer,           \* request(): the abort timer: "none", "armed", "fired", "cleared"
  fetches,         \* the fetch calls issued so far, in order
  payments,        \* the number of payment payloads created so far
  outcome,         \* how the request() call ended: nothing yet, returned, or the error thrown
  nreq             \* the number of request() calls made so far

cmdVars == <<cpc, server, calls, loc>>

argVars == <<args, i, result, pc, cls, binds, at>>

ioVars == <<stdout, stderr, stage, ncalls, lastCall>>

mainVars == <<mpc, exitCode, trace, timeoutMs, sent, err>>

reqVars == <<rpc, timer, fetches, payments, outcome, nreq>>

outVars ==
  <<outputJson, outputQuiet, outputPretty, outputFormat, outputTruncate, outputFile,
    noTruncate, outputField, files, outErr, lastBare>>

\* the output configuration: the module state without the file system
cfgVars ==
  <<outputJson, outputQuiet, outputPretty, outputFormat, outputTruncate, outputFile,
    noTruncate, outputField, outErr, lastBare>>

vars == <<argVars, outVars, ioVars, mainVars, reqVars, cmdVars>>

(***************************************************************************)
(* String literals.                                                        *)
(***************************************************************************)
Chars(s) ==
  CASE s = "agentId" -> <<"a", "g", "e", "n", "t", "I", "d">>
    [] s = "batch" -> <<"b", "a", "t", "c", "h">>
    [] s = "category" -> <<"c", "a", "t", "e", "g", "o", "r", "y">>
    [] s = "columns" -> <<"c", "o", "l", "u", "m", "n", "s">>
    [] s = "concurrency" -> <<"c", "o", "n", "c", "u", "r", "r", "e", "n", "c", "y">>
    [] s = "count" -> <<"c", "o", "u", "n", "t">>
    [] s = "dryRun" -> <<"d", "r", "y", "R", "u", "n">>
    [] s = "expiresAt" -> <<"e", "x", "p", "i", "r", "e", "s", "A", "t">>
    [] s = "field" -> <<"f", "i", "e", "l", "d">>
    [] s = "force" -> <<"f", "o", "r", "c", "e">>
    [] s = "format" -> <<"f", "o", "r", "m", "a", "t">>
    [] s = "help" -> <<"h", "e", "l", "p">>
    [] s = "immutable" -> <<"i", "m", "m", "u", "t", "a", "b", "l", "e">>
    [] s = "interactive" -> <<"i", "n", "t", "e", "r", "a", "c", "t", "i", "v", "e">>
    [] s = "json" -> <<"j", "s", "o", "n">>
    [] s = "limit" -> <<"l", "i", "m", "i", "t">>
    [] s = "namespace" -> <<"n", "a", "m", "e", "s", "p", "a", "c", "e">>
    [] s = "noColor" -> <<"n", "o", "C", "o", "l", "o", "r">>
    [] s = "noTruncate" -> <<"n", "o", "T", "r", "u", "n", "c", "a", "t", "e">>
    [] s = "offset" -> <<"o", "f", "f", "s", "e", "t">>
    [] s = "output" -> <<"o", "u", "t", "p", "u", "t">>
    [] s = "pinned" -> <<"p", "i", "n", "n", "e", "d">>
    [] s = "pretty" -> <<"p", "r", "e", "t", "t", "y">>
    [] s = "quiet" -> <<"q", "u", "i", "e", "t">>
    [] s = "raw" -> <<"r", "a", "w">>
    [] s = "reverse" -> <<"r", "e", "v", "e", "r", "s", "e">>
    [] s = "sessionId" -> <<"s", "e", "s", "s", "i", "o", "n", "I", "d">>
    [] s = "sortBy" -> <<"s", "o", "r", "t", "B", "y">>
    [] s = "tags" -> <<"t", "a", "g", "s">>
    [] s = "text" -> <<"t", "e", "x", "t">>
    [] s = "timeout" -> <<"t", "i", "m", "e", "o", "u", "t">>
    [] s = "truncate" -> <<"t", "r", "u", "n", "c", "a", "t", "e">>
    [] s = "verbose" -> <<"v", "e", "r", "b", "o", "s", "e">>
    [] s = "version" -> <<"v", "e", "r", "s", "i", "o", "n">>
    [] s = "watch" -> <<"w", "a", "t", "c", "h">>
    [] s = "wide" -> <<"w", "i", "d", "e">>
    [] s = "yes" -> <<"y", "e", "s">>
    [] s = "x" -> <<"x">>
    [] s = "0" -> <<"0">>
    [] s = "--" -> <<"-", "-">>
    [] s = "-" -> <<"-">>
    [] s = "--json" -> <<"-", "-", "j", "s", "o", "n">>
    [] s = "-j" -> <<"-", "j">>
    [] s = "-n" -> <<"-", "n">>
    [] s = "-q" -> <<"-", "q">>
    [] s = "--namespace" -> <<"-", "-", "n", "a", "m", "e", "s", "p", "a", "c", "e">>
    [] s = "--namespace=x" -> <<"-", "-", "n", "a", "m", "e", "s", "p", "a", "c", "e", "=", "x">>
    [] s = "--namespace=" -> <<"-", "-", "n", "a", "m", "e", "s", "p", "a", "c", "e", "=">>
    [] s = "--_" -> <<"-", "-", "_">>
    [] s = "-5" -> <<"-", "5">>
    [] s = "--5" -> <<"-", "-", "5">>
    [] s = "-jn" -> <<"-", "j", "n">>
    [] s = "-nj" -> <<"-", "n", "j">>
    [] s = "-jz" -> <<"-", "j", "z">>
    [] s = "-nn" -> <<"-", "n", "n">>
    [] s = "--dry-run" -> <<"-", "-", "d", "r", "y", "-", "r", "u", "n">>
    [] s = "--sort-by" -> <<"-", "-", "s", "o", "r", "t", "-", "b", "y">>
    [] s = "--top-5" -> <<"-", "-", "t", "o", "p", "-", "5">>
    [] s = "--a--b" -> <<"-", "-", "a", "-", "-", "b">>
    [] s = "--a-B" -> <<"-", "-", "a", "-", "B">>
    [] s = "-n=x" -> <<"-", "n", "=", "x">>
    [] s = "-j=" -> <<"-", "j", "=">>
    [] s = "--json=x" -> <<"-", "-", "j", "s", "o", "n", "=", "x">>
    [] s = "_" -> <<"_">>
    [] s = "a-B" -> <<"a", "-", "B">>
    [] s = "top-5" -> <<"t", "o", "p", "-", "5">>
    [] s = "--limit" -> <<"-", "-", "l", "i", "m", "i", "t">>
    [] s = "topK" -> <<"t", "o", "p", "K">>
    [] s = "a-Bx" -> <<"a", "-", "B", "x">>
    [] s = "a--b" -> <<"a", "-", "-", "b">>
    [] s = "v" -> <<"v">>
    [] s = "foo-bar-baz" -> <<"f", "o", "o", "-", "b", "a", "r", "-", "b", "a", "z">>
    [] s = "--foo-bar-baz" -> <<"-", "-", "f", "o", "o", "-", "b", "a", "r", "-", "b", "a", "z">>
    [] s = "fooBarBaz" -> <<"f", "o", "o", "B", "a", "r", "B", "a", "z">>
    [] s = "yml" -> <<"y", "m", "l">>
    [] s = "yaml" -> <<"y", "a", "m", "l">>
    [] s = "csv" -> <<"c", "s", "v">>
    [] s = "tsv" -> <<"t", "s", "v">>
    [] s = "table" -> <<"t", "a", "b", "l", "e">>
    [] s = "YML" -> <<"Y", "M", "L">>
    [] s = "bogus" -> <<"b", "o", "g", "u", "s">>
    [] s = "5" -> <<"5">>
    [] s = "80" -> <<"8", "0">>
    [] s = "abc" -> <<"a", "b", "c">>
    [] s = "f" -> <<"f">>
    [] s = "a" -> <<"a">>
    [] s = "true" -> <<"t", "r", "u", "e">>
    [] s = "5x" -> <<"5", "x">>
    [] s = "-3" -> <<"-", "3">>
    [] s = "CSV" -> <<"C", "S", "V">>
    [] s = "a.b" -> <<"a", ".", "b">>
    [] s = "--limit=0" -> <<"-", "-", "l", "i", "m", "i", "t", "=", "0">>
    [] s = "null" -> <<"n", "u", "l", "l">>
    [] s = "undefined" -> <<"u", "n", "d", "e", "f", "i", "n", "e", "d">>
    [] s = "/ro/f" -> <<"/", "r", "o", "/", "f">>
    [] s = "id" -> <<"i", "d">>
    [] s = "b" -> <<"b">>
    [] s = "x,y" -> <<"x", ",", "y">>
    [] s = "m" -> <<"m">>
    [] s = "1" -> <<"1">>
    [] s = "2" -> <<"2">>
    [] s = " (" -> <<" ", "(">>
    [] s = " chars)" -> <<" ", "c", "h", "a", "r", "s", ")">>
    [] s = " memories" -> <<" ", "m", "e", "m", "o", "r", "i", "e", "s">>
    [] s = " of " -> <<" ", "o", "f", " ">>
    [] s = ")" -> <<")">>
    [] s = "- " -> <<"-", " ">>
    [] s = "--help" -> <<"-", "-", "h", "e", "l", "p">>
    [] s = "--importance" -> <<"-", "-", "i", "m", "p", "o", "r", "t", "a", "n", "c", "e">>
    [] s = "--output" -> <<"-", "-", "o", "u", "t", "p", "u", "t">>
    [] s = "--tags" -> <<"-", "-", "t", "a", "g", "s">>
    [] s = "--timeout" -> <<"-", "-", "t", "i", "m", "e", "o", "u", "t">>
    [] s = "--version" -> <<"-", "-", "v", "e", "r", "s", "i", "o", "n">>
    [] s = "-jq" -> <<"-", "j", "q">>
    [] s = "-n=ns" -> <<"-", "n", "=", "n", "s">>
    [] s = "-x" -> <<"-", "x">>
    [] s = "-z" -> <<"-", "z">>
    [] s = "0.5" -> <<"0", ".", "5">>
    [] s = "CONTENT" -> <<"C", "O", "N", "T", "E", "N", "T">>
    [] s = "CREATED" -> <<"C", "R", "E", "A", "T", "E", "D">>
    [] s = "Content exceeds the 8192 character limit (got " -> <<"C", "o", "n", "t", "e", "n", "t", " ", "e", "x", "c", "e", "e", "d", "s", " ", "t", "h", "e", " ", "8", "1", "9", "2", " ", "c", "h", "a", "r", "a", "c", "t", "e", "r", " ", "l", "i", "m", "i", "t", " ", "(", "g", "o", "t", " ">>
    [] s = "Content required. Provide as argument, --content flag, or pipe via stdin." -> <<"C", "o", "n", "t", "e", "n", "t", " ", "r", "e", "q", "u", "i", "r", "e", "d", ".", " ", "P", "r", "o", "v", "i", "d", "e", " ", "a", "s", " ", "a", "r", "g", "u", "m", "e", "n", "t", ",", " ", "-", "-", "c", "o", "n", "t", "e", "n", "t", " ", "f", "l", "a", "g", ",", " ", "o", "r", " ", "p", "i", "p", "e", " ", "v", "i", "a", " ", "s", "t", "d", "i", "n", ".">>
    [] s = "EACCES" -> <<"E", "A", "C", "C", "E", "S">>
    [] s = "Error: " -> <<"E", "r", "r", "o", "r", ":", " ">>
    [] s = "HTTP 500" -> <<"H", "T", "T", "P", " ", "5", "0", "0">>
    [] s = "ID" -> <<"I", "D">>
    [] s = "IMP" -> <<"I", "M", "P">>
    [] s = "Importance must be a number between 0 and 1 (got " -> <<"I", "m", "p", "o", "r", "t", "a", "n", "c", "e", " ", "m", "u", "s", "t", " ", "b", "e", " ", "a", " ", "n", "u", "m", "b", "e", "r", " ", "b", "e", "t", "w", "e", "e", "n", " ", "0", " ", "a", "n", "d", " ", "1", " ", "(", "g", "o", "t", " ">>
    [] s = "Importance: " -> <<"I", "m", "p", "o", "r", "t", "a", "n", "c", "e", ":", " ">>
    [] s = "Memory stored" -> <<"M", "e", "m", "o", "r", "y", " ", "s", "t", "o", "r", "e", "d">>
    [] s = "No memories found." -> <<"N", "o", " ", "m", "e", "m", "o", "r", "i", "e", "s", " ", "f", "o", "u", "n", "d", ".">>
    [] s = "Run memoclaw --help for usage." -> <<"R", "u", "n", " ", "m", "e", "m", "o", "c", "l", "a", "w", " ", "-", "-", "h", "e", "l", "p", " ", "f", "o", "r", " ", "u", "s", "a", "g", "e", ".">>
    [] s = "TAGS" -> <<"T", "A", "G", "S">>
    [] s = "Unknown command: " -> <<"U", "n", "k", "n", "o", "w", "n", " ", "c", "o", "m", "m", "a", "n", "d", ":", " ">>
    [] s = "_at" -> <<"_", "a", "t">>
    [] s = "a, b" -> <<"a", ",", " ", "b">>
    [] s = "content" -> <<"c", "o", "n", "t", "e", "n", "t">>
    [] s = "created" -> <<"c", "r", "e", "a", "t", "e", "d">>
    [] s = "data" -> <<"d", "a", "t", "a">>
    [] s = "error" -> <<"e", "r", "r", "o", "r">>
    [] s = "importance" -> <<"i", "m", "p", "o", "r", "t", "a", "n", "c", "e">>
    [] s = "list" -> <<"l", "i", "s", "t">>
    [] s = "memoclaw VERSION" -> <<"m", "e", "m", "o", "c", "l", "a", "w", " ", "V", "E", "R", "S", "I", "O", "N">>
    [] s = "memories" -> <<"m", "e", "m", "o", "r", "i", "e", "s">>
    [] s = "metadata" -> <<"m", "e", "t", "a", "d", "a", "t", "a">>
    [] s = "ns" -> <<"n", "s">>
    [] s = "opts.tags.split is not a function" -> <<"o", "p", "t", "s", ".", "t", "a", "g", "s", ".", "s", "p", "l", "i", "t", " ", "i", "s", " ", "n", "o", "t", " ", "a", " ", "f", "u", "n", "c", "t", "i", "o", "n">>
    [] s = "store" -> <<"s", "t", "o", "r", "e">>
    [] s = "total" -> <<"t", "o", "t", "a", "l">>
    [] s = "updated" -> <<"u", "p", "d", "a", "t", "e", "d">>
    [] s = "y" -> <<"y">>
    [] s = "agent_id" -> <<"a", "g", "e", "n", "t", "_", "i", "d">>
    [] s = "expires_at" -> <<"e", "x", "p", "i", "r", "e", "s", "_", "a", "t">>
    [] s = "memoryType" -> <<"m", "e", "m", "o", "r", "y", "T", "y", "p", "e">>
    [] s = "memory_type" -> <<"m", "e", "m", "o", "r", "y", "_", "t", "y", "p", "e">>
    [] s = "session_id" -> <<"s", "e", "s", "s", "i", "o", "n", "_", "i", "d">>
    [] s = "?" -> <<"?">>
    [] s = "[???] " -> <<"[", "?", "?", "?", "]", " ">>
    [] s = " results" -> <<" ", "r", "e", "s", "u", "l", "t", "s">>
    [] s = " result" -> <<" ", "r", "e", "s", "u", "l", "t">>
    [] s = "Watching for changes... Press Ctrl+C to stop." -> <<"W", "a", "t", "c", "h", "i", "n", "g", " ", "f", "o", "r", " ", "c", "h", "a", "n", "g", "e", "s", ".", ".", ".", " ", "P", "r", "e", "s", "s", " ", "C", "t", "r", "l", "+", "C", " ", "t", "o", " ", "s", "t", "o", "p", ".">>
    [] s = "5000" -> <<"5", "0", "0", "0">>
    [] s = "1000" -> <<"1", "0", "0", "0">>
    [] s = "YES" -> <<"Y", "E", "S">>
    [] s = " yes " -> <<" ", "y", "e", "s", " ">>
    [] s = "no" -> <<"n", "o">>
    [] s = "yes please" -> <<"y", "e", "s", " ", "p", "l", "e", "a", "s", "e">>
    [] s = "Use --force or --yes to confirm purge in non-interactive mode" -> <<"U", "s", "e", " ", "-", "-", "f", "o", "r", "c", "e", " ", "o", "r", " ", "-", "-", "y", "e", "s", " ", "t", "o", " ", "c", "o", "n", "f", "i", "r", "m", " ", "p", "u", "r", "g", "e", " ", "i", "n", " ", "n", "o", "n", "-", "i", "n", "t", "e", "r", "a", "c", "t", "i", "v", "e", " ", "m", "o", "d", "e">>
    [] s = "Delete ALL memories? Type \"yes\" to confirm: " -> <<"D", "e", "l", "e", "t", "e", " ", "A", "L", "L", " ", "m", "e", "m", "o", "r", "i", "e", "s", "?", " ", "T", "y", "p", "e", " ", "\"", "y", "e", "s", "\"", " ", "t", "o", " ", "c", "o", "n", "f", "i", "r", "m", ":", " ">>
    [] s = "Aborted." -> <<"A", "b", "o", "r", "t", "e", "d", ".">>
    [] s = "deleted" -> <<"d", "e", "l", "e", "t", "e", "d">>
    [] s = "Purged " -> <<"P", "u", "r", "g", "e", "d", " ">>
    [] s = "Aborting: 3 consecutive batches failed to delete any memories" -> <<"A", "b", "o", "r", "t", "i", "n", "g", ":", " ", "3", " ", "c", "o", "n", "s", "e", "c", "u", "t", "i", "v", "e", " ", "b", "a", "t", "c", "h", "e", "s", " ", "f", "a", "i", "l", "e", "d", " ", "t", "o", " ", "d", "e", "l", "e", "t", "e", " ", "a", "n", "y", " ", "m", "e", "m", "o", "r", "i", "e", "s">>
    [] s = "update" -> <<"u", "p", "d", "a", "t", "e">>
    [] s = "No fields to update. Use --content, --importance, --tags, etc." -> <<"N", "o", " ", "f", "i", "e", "l", "d", "s", " ", "t", "o", " ", "u", "p", "d", "a", "t", "e", ".", " ", "U", "s", "e", " ", "-", "-", "c", "o", "n", "t", "e", "n", "t", ",", " ", "-", "-", "i", "m", "p", "o", "r", "t", "a", "n", "c", "e", ",", " ", "-", "-", "t", "a", "g", "s", ",", " ", "e", "t", "c", ".">>
    [] s = "Memory " -> <<"M", "e", "m", "o", "r", "y", " ">>
    [] s = "~ updated" -> <<"~", " ", "u", "p", "d", "a", "t", "e", "d">>
    [] s = "--content" -> <<"-", "-", "c", "o", "n", "t", "e", "n", "t">>
    [] s = "Memory ID required. Usage: memoclaw update <id> --content \"new text\"" -> <<"M", "e", "m", "o", "r", "y", " ", "I", "D", " ", "r", "e", "q", "u", "i", "r", "e", "d", ".", " ", "U", "s", "a", "g", "e", ":", " ", "m", "e", "m", "o", "c", "l", "a", "w", " ", "u", "p", "d", "a", "t", "e", " ", "<", "i", "d", ">", " ", "-", "-", "c", "o", "n", "t", "e", "n", "t", " ", "\"", "n", "e", "w", " ", "t", "e", "x", "t", "\"">>
    [] s = "a,b" -> <<"a", ",", "b">>
    [] s = "exported_at" -> <<"e", "x", "p", "o", "r", "t", "e", "d", "_", "a", "t">>
    [] s = "now" -> <<"n", "o", "w">>
    [] s = "Exported " -> <<"E", "x", "p", "o", "r", "t", "e", "d", " ">>
    [] s = "Fetched " -> <<"F", "e", "t", "c", "h", "e", "d", " ">>
    [] s = " memories..." -> <<" ", "m", "e", "m", "o", "r", "i", "e", "s", ".", ".", ".">>
    [] s = "imported" -> <<"i", "m", "p", "o", "r", "t", "e", "d">>
    [] s = "failed" -> <<"f", "a", "i", "l", "e", "d">>
    [] s = "Imported " -> <<"I", "m", "p", "o", "r", "t", "e", "d", " ">>
    [] s = " failed)" -> <<" ", "f", "a", "i", "l", "e", "d", ")">>
    [] s = "3" -> <<"3">>
    [] s = "4" -> <<"4">>
    [] s = "" -> <<>>


SHORT_FLAGS ==
  [ch \in {"h", "v", "j", "q", "n", "l", "t", "o", "f", "p", "i", "w", "d", "c", "s", "y", "T", "x", "e", "C", "S", "A", "r", "m", "k", "O", "F"} |->
     CASE ch = "h" -> Chars("help")
       [] ch = "v" -> Chars("version")
       [] ch = "j" -> Chars("json")
       [] ch = "q" -> Chars("quiet")
       [] ch = "n" -> Chars("namespace")
       [] ch = "l" -> Chars("limit")
       [] ch = "t" -> Chars("tags")
       [] ch = "o" -> Chars("offset")
       [] ch = "f" -> Chars("format")
       [] ch = "p" -> Chars("pretty")
       [] ch = "i" -> Chars("interactive")
       [] ch = "w" -> Chars("watch")
       [] ch = "d" -> Chars("dryRun")
       [] ch = "c" -> Chars("concurrency")
       [] ch = "s" -> Chars("truncate")
       [] ch = "y" -> Chars("yes")
       [] ch = "T" -> Chars("timeout")
       [] ch = "x" -> Chars("text")
       [] ch = "e" -> Chars("expiresAt")
       [] ch = "C" -> Chars("category")
       [] ch = "S" -> Chars("sessionId")
       [] ch = "A" -> Chars("agentId")
       [] ch = "r" -> Chars("reverse")
       [] ch = "m" -> Chars("sortBy")
       [] ch = "k" -> Chars("columns")
       [] ch = "O" -> Chars("output")
       [] ch = "F" -> Chars("field")
  ]

BOOLEAN_FLAGS ==
  {Chars("help"), Chars("version"), Chars("raw"), Chars("json"), Chars("quiet"), Chars("dryRun"), Chars("verbose"), Chars("noColor"), Chars("force"), Chars("count"), Chars("wide"), Chars("pretty"), Chars("watch"), Chars("interactive"), Chars("yes"), Chars("reverse"), Chars("noTruncate"), Chars("immutable"), Chars("pinned"), Chars("batch")}
(***************************************************************************)
(* JavaScript string helpers.                                              *)
(***************************************************************************)
Lowers ==
  <<"a", "b", "c", "d", "e", "f", "g", "h", "i", "j", "k", "l", "m",
    "n", "o", "p", "q", "r", "s", "t", "u", "v", "w", "x", "y", "z">>

Uppers ==
  <<"A", "B", "C", "D", "E", "F", "G", "H", "I", "J", "K", "L", "M",
    "N", "O", "P", "Q", "R", "S", "T", "U", "V", "W", "X", "Y", "Z">>

Digits == {"0", "1", "2", "3", "4", "5", "6", "7", "8", "9"}

\* [a-z]
IsLower(ch) == \E k \in DOMAIN Lowers : Lowers[k] = ch

\* ch.toUpperCase() for one character
ToUpperCase(ch) ==
  IF IsLower(ch) THEN Uppers[CHOOSE k \in DOMAIN Lowers : Lowers[k] = ch] ELSE ch

\* s.indexOf(ch) + 1: the first position of ch in s, 0 when absent
IndexOf(s, ch) ==
  IF \E k \in 1..Len(s) : s[k] = ch
    THEN CHOOSE k \in 1..Len(s) : s[k] = ch /\ \A m \in 1..(k - 1) : s[m] # ch
    ELSE 0

\* s.startsWith(p)
StartsWith(s, p) == Len(s) >= Len(p) /\ SubSeq(s, 1, Len(p)) = p

\* mutant: /-(.)/g, every hyphen dropped and whatever follows it uppercased
RECURSIVE KebabToCamel_AnyChar(_)
KebabToCamel_AnyChar(s) ==
  IF s = <<>> THEN <<>>
  ELSE IF Len(s) >= 2 /\ s[1] = "-"
    THEN <<ToUpperCase(s[2])>> \o KebabToCamel_AnyChar(SubSeq(s, 3, Len(s)))
    ELSE <<s[1]>> \o KebabToCamel_AnyChar(Tail(s))

\* s.replace(/-([a-z])/g, (_, ch) => ch.toUpperCase())
RECURSIVE KebabToCamel(_)
KebabToCamel(s) ==
  IF s = <<>> THEN <<>>
  ELSE IF Len(s) >= 2 /\ s[1] = "-" /\ IsLower(s[2])
    THEN <<ToUpperCase(s[2])>> \o KebabToCamel(SubSeq(s, 3, Len(s)))
    ELSE <<s[1]>> \o KebabToCamel(Tail(s))

\* /^--?\d/.test(s)
NegativeNumberLike(s) ==
  /\ Len(s) >= 2
  /\ s[1] = "-"
  /\ \/ s[2] \in Digits
     \/ Len(s) >= 3 /\ s[2] = "-" /\ s[3] \in Digits

(***************************************************************************)
(* ParsedArgs: an object, here a function from its keys to tagged values.  *)
(* The key "_" starts as the empty array; every other key is bound to      *)
(* true or to a string.                                                    *)
(***************************************************************************)
True == [t |-> "true", s |-> <<>>, a |-> <<>>]
Str(s) == [t |-> "str", s |-> s, a |-> <<>>]
Arr(a) == [t |-> "arr", s |-> <<>>, a |-> a]

Underscore == Chars("_")

\* result[key] = val
SetKey(res, key, val) ==
  [k \in (DOMAIN res) \cup {key} |-> IF k = key THEN val ELSE res[k]]

Bind(key, val) == [key |-> key, val |-> val]

RECURSIVE ApplyBinds(_, _)
ApplyBinds(res, bs) ==
  IF bs = <<>> THEN res
  ELSE ApplyBinds(SetKey(res, Head(bs).key, Head(bs).val), Tail(bs))

\* result._.push is callable only while result._ is still an array
CanPush(res) == res[Underscore].t = "arr"

\* result._.push(...toks)
Push(res, toks) == SetKey(res, Underscore, Arr(res[Underscore].a \o toks))

(***************************************************************************)
(* parseArgs, one action per branch of the while loop body.                *)
(***************************************************************************)
Running == pc = "run" /\ i <= Len(args)

arg == args[i]

HasNext == i + 1 <= Len(args)

\* arg[0] === '-' && arg[1] !== '-' && arg.length >= 2
IsShortShape(a) == Len(a) >= 2 /\ a[1] = "-" /\ a[2] # "-"

\* SHORT_FLAGS[s] is defined
ShortKnown(s) == Len(s) = 2 /\ s[1] = "-" /\ s[2] \in DOMAIN SHORT_FLAGS

ShortKey(s) == SHORT_FLAGS[s[2]]

\* the -X=value test of lines 57-61
ShortInlineApplies(a) ==
  /\ IndexOf(a, "=") # 0
  /\ ShortKnown(SubSeq(a, 1, IndexOf(a, "=") - 1))

\* next !== undefined && !next.startsWith('-')
ShortTakesNext == HasNext /\ ~StartsWith(args[i + 1], <<"-">>)

\* mutant: the long-flag lookahead written like the short-flag one
LongTakesNext_AsShort == ShortTakesNext

\* next !== undefined && (!next.startsWith('--') || /^--?\d/.test(next))
LongTakesNext ==
  HasNext /\ (~StartsWith(args[i + 1], <<"-", "-">>) \/ NegativeNumberLike(args[i + 1]))

Mark(c, k, what) == [c EXCEPT ![k] = what]

\* the cursor and history after a flag token that did or did not take the next token
Advance(taken) ==
  /\ at' = i
  /\ i' = IF taken THEN i + 2 ELSE i + 1
  /\ cls' = IF taken THEN Mark(Mark(cls, i, "flag"), i + 1, "value")
                     ELSE Mark(cls, i, "flag")

\* result._.push(arg); i++  (a TypeError when result._ is no longer an array)
PushPositional ==
  IF CanPush(result)
    THEN /\ result' = Push(result, <<arg>>)
         /\ at' = i
         /\ i' = i + 1
         /\ cls' = Mark(cls, i, "pos")
         /\ binds' = <<>>
         /\ UNCHANGED <<args, pc>>
    ELSE /\ pc' = "thrown"
         /\ at' = i
         /\ binds' = <<>>
         /\ UNCHANGED <<args, i, result, cls>>

ShortInline ==
  /\ Running
  /\ UNCHANGED <<outVars, ioVars, mainVars, reqVars, cmdVars>>
  /\ IsShortShape(arg)
  /\ ShortInlineApplies(arg)
  /\ LET eqIdx == IndexOf(arg, "=")
         key == ShortKey(SubSeq(arg, 1, eqIdx - 1))
         valuePart == SubSeq(arg, eqIdx + 1, Len(arg))
     IN  /\ binds' = <<Bind(key, Str(valuePart))>>
         /\ result' = ApplyBinds(result, binds')
         /\ Advance(FALSE)
  /\ UNCHANGED <<args, pc>>

ShortSingle ==
  /\ Running
  /\ UNCHANGED <<outVars, ioVars, mainVars, reqVars, cmdVars>>
  /\ IsShortShape(arg)
  /\ ~ShortInlineApplies(arg)
  /\ Len(arg) = 2 /\ ShortKnown(arg)
  /\ LET key == ShortKey(arg)
         taken == key \notin BOOLEAN_FLAGS /\ ShortTakesNext
     IN  /\ binds' = <<Bind(key, IF taken THEN Str(args[i + 1]) ELSE True)>>
         /\ result' = ApplyBinds(result, binds')
         /\ Advance(taken)
  /\ UNCHANGED <<args, pc>>

\* the chars of a combined token, all resolved through SHORT_FLAGS
AllValid(chars) == \A k \in 1..Len(chars) : chars[k] \in DOMAIN SHORT_FLAGS

\* lines 95-113: the binding made for the character at position ci
CombinedBind(chars, ci) ==
  LET key == SHORT_FLAGS[chars[ci]]
  IN  IF key \in BOOLEAN_FLAGS THEN Bind(key, True)
      ELSE IF ci = Len(chars)
        THEN Bind(key, IF ShortTakesNext THEN Str(args[i + 1]) ELSE True)
        ELSE Bind(key, True)

CombinedShort ==
  /\ Running
  /\ UNCHANGED <<outVars, ioVars, mainVars, reqVars, cmdVars>>
  /\ IsShortShape(arg)
  /\ ~ShortInlineApplies(arg)
  /\ ~(Len(arg) = 2 /\ ShortKnown(arg))
  /\ Len(arg) > 2 /\ ~ShortKnown(arg)
  /\ LET chars == Tail(arg)
         last == SHORT_FLAGS[chars[Len(chars)]]
     IN  IF AllValid(chars)
           THEN /\ binds' = [ci \in 1..Len(chars) |-> CombinedBind(chars, ci)]
                /\ result' = ApplyBinds(result, binds')
                /\ Advance(last \notin BOOLEAN_FLAGS /\ ShortTakesNext)
                /\ UNCHANGED <<args, pc>>
           ELSE PushPositional

\* line 120: a dash token of two characters that is no alias, such as -5
ShortUnknown ==
  /\ Running
  /\ UNCHANGED <<outVars, ioVars, mainVars, reqVars, cmdVars>>
  /\ IsShortShape(arg)
  /\ ~ShortInlineApplies(arg)
  /\ ~(Len(arg) = 2 /\ ShortKnown(arg))
  /\ ~(Len(arg) > 2 /\ ~ShortKnown(arg))
  /\ PushPositional

\* lines 124-127: result._.push(...args.slice(i + 1)); break
DashDash ==
  /\ Running
  /\ UNCHANGED <<outVars, ioVars, mainVars, reqVars, cmdVars>>
  /\ ~IsShortShape(arg)
  /\ arg = <<"-", "-">>
  /\ at' = i
  /\ binds' = <<>>
  /\ IF CanPush(result)
       THEN /\ result' = Push(result, SubSeq(args, i + 1, Len(args)))
            /\ cls' = [k \in 1..Len(args) |->
                         IF k < i THEN cls[k] ELSE IF k = i THEN "sep" ELSE "pos"]
            /\ pc' = "done"
       ELSE /\ pc' = "thrown"
            /\ UNCHANGED <<result, cls>>
  /\ UNCHANGED <<args, i>>

\* lines 129-138: the key of a long flag token
LongKey(a) ==
  LET eqIdx == IndexOf(a, "=")
  IN  IF eqIdx # 0 THEN KebabToCamel(SubSeq(a, 3, eqIdx - 1))
      ELSE KebabToCamel(SubSeq(a, 3, Len(a)))

\* mutant: if (inlineValue) in place of if (inlineValue !== undefined)
LongValue_TruthyInline(a, key, taken) ==
  LET eqIdx == IndexOf(a, "=")
  IN  IF eqIdx # 0 /\ SubSeq(a, eqIdx + 1, Len(a)) # <<>>
        THEN Str(SubSeq(a, eqIdx + 1, Len(a)))
      ELSE IF key \in BOOLEAN_FLAGS THEN True
      ELSE IF taken THEN Str(args[i + 1])
      ELSE True

\* lines 140-156: the value a long flag token is bound to
LongValue(a, key, taken) ==
  LET eqIdx == IndexOf(a, "=")
  IN  IF eqIdx # 0 THEN Str(SubSeq(a, eqIdx + 1, Len(a)))
      ELSE IF key \in BOOLEAN_FLAGS THEN True
      ELSE IF taken THEN Str(args[i + 1])
      ELSE True

LongFlag ==
  /\ Running
  /\ UNCHANGED <<outVars, ioVars, mainVars, reqVars, cmdVars>>
  /\ ~IsShortShape(arg)
  /\ arg # <<"-", "-">>
  /\ StartsWith(arg, <<"-", "-">>)
  /\ LET eqIdx == IndexOf(arg, "=")
         key == LongKey(arg)
         taken == eqIdx = 0 /\ key \notin BOOLEAN_FLAGS /\ LongTakesNext
     IN  /\ binds' = <<Bind(key, LongValue(arg, key, taken))>>
         /\ result' = ApplyBinds(result, binds')
         /\ Advance(taken)
  /\ UNCHANGED <<args, pc>>

Positional ==
  /\ Running
  /\ UNCHANGED <<outVars, ioVars, mainVars, reqVars, cmdVars>>
  /\ ~IsShortShape(arg)
  /\ arg # <<"-", "-">>
  /\ ~StartsWith(arg, <<"-", "-">>)
  /\ PushPositional

\* line 163: return result
Return ==
  /\ pc = "run"
  /\ UNCHANGED <<outVars, ioVars, mainVars, reqVars, cmdVars>>
  /\ i > Len(args)
  /\ pc' = "done"
  /\ UNCHANGED <<args, i, result, cls, binds, at>>

parseArgs ==
  \/ ShortInline
  \/ ShortSingle
  \/ CombinedShort
  \/ ShortUnknown
  \/ DashDash
  \/ LongFlag
  \/ Positional
  \/ Return

(***************************************************************************)
(* JavaScript values and conversions used by configureOutput.              *)
(***************************************************************************)
Undefined == [t |-> "undef", s |-> <<>>, a |-> <<>>]
Null == [t |-> "null", s |-> <<>>, a |-> <<>>]

False == [t |-> "false", s |-> <<>>, a |-> <<>>]

\* the truthiness of v: if (v), !!v
Truthy(v) == v.t = "true" \/ v.t = "arr" \/ (v.t = "str" /\ v.s # <<>>)

\* String(v)
String(v) ==
  CASE v.t = "str" -> v.s
    [] v.t = "true" -> Chars("true")
    [] v.t = "null" -> Chars("null")
    [] v.t = "num" -> v.s
    [] OTHER -> Chars("undefined")

\* s.toLowerCase()
ToLowerCase(s) ==
  [p \in 1..Len(s) |->
     IF \E k \in DOMAIN Uppers : Uppers[k] = s[p]
       THEN Lowers[CHOOSE k \in DOMAIN Uppers : Uppers[k] = s[p]]
       ELSE s[p]]

DigitChars == <<"0", "1", "2", "3", "4", "5", "6", "7", "8", "9">>

DigitValue(ch) == (CHOOSE d \in DOMAIN DigitChars : DigitChars[d] = ch) - 1

Num(n) == [nan |-> FALSE, n |-> n]
NaN == [nan |-> TRUE, n |-> 0]

\* the value of the leading run of digits of s, given the value acc read so far
RECURSIVE LeadingDigits(_, _)
LeadingDigits(s, acc) ==
  IF s = <<>> \/ Head(s) \notin Digits THEN acc
  ELSE LeadingDigits(Tail(s), 10 * acc + DigitValue(Head(s)))

\* parseInt(v): an optional sign and the leading digits of String(v), NaN without a digit
ParseInt(v) ==
  LET s == String(v)
      neg == s # <<>> /\ Head(s) = "-"
      body == IF s # <<>> /\ Head(s) \in {"-", "+"} THEN Tail(s) ELSE s
  IN  IF body = <<>> \/ Head(body) \notin Digits THEN NaN
      ELSE Num(IF neg THEN 0 - LeadingDigits(body, 0) ELSE LeadingDigits(body, 0))

\* the formats line 36 accepts
Formats == {Chars("json"), Chars("table"), Chars("csv"), Chars("tsv"), Chars("yaml")}

\* paths fs.writeFileSync cannot write
Unwritable == {Chars("/ro/f")}

(***************************************************************************)
(* configureOutput(args): st is the module state before the call, a the    *)
(* args object; the result is the module state after it.                   *)
(***************************************************************************)
OutputState ==
  [ outputJson |-> outputJson, outputQuiet |-> outputQuiet, outputPretty |-> outputPretty,
    outputFormat |-> outputFormat, outputTruncate |-> outputTruncate,
    outputFile |-> outputFile, noTruncate |-> noTruncate, outputField |-> outputField,
    files |-> files, outErr |-> outErr ]

\* lines 28-31
FieldGiven(a) == Truthy(a.field) /\ a.field # True

\* lines 33-40: the format after the call
FormatAfter(st, a) ==
  LET lower == ToLowerCase(String(a.format))
      fmt == IF lower = Chars("yml") THEN Chars("yaml") ELSE lower
  IN  IF Truthy(a.json) THEN Chars("json")
      ELSE IF Truthy(a.format) /\ fmt \in Formats THEN fmt
      ELSE st.outputFormat

\* mutant: if (noTruncate) outputTruncate = 0 run before noTruncate is assigned
TruncateAfter_StaleNoTruncate(st, a) ==
  IF st.noTruncate THEN Num(0)
  ELSE IF a.truncate.t \notin {"undef", "null"} /\ a.truncate # True THEN ParseInt(a.truncate)
  ELSE IF a.truncate = True THEN Num(80)
  ELSE st.outputTruncate

\* lines 42-49: the truncation width after the call
TruncateAfter(st, a) ==
  IF Truthy(a.noTruncate) THEN Num(0)
  ELSE IF a.truncate.t \notin {"undef", "null"} /\ a.truncate # True THEN ParseInt(a.truncate)
  ELSE IF a.truncate = True THEN Num(80)
  ELSE st.outputTruncate

Configured(st, a) ==
  [ outputJson |-> Truthy(a.json) \/ FieldGiven(a),
    outputQuiet |-> Truthy(a.quiet),
    outputPretty |-> Truthy(a.pretty),
    outputField |-> IF FieldGiven(a) THEN Str(String(a.field)) ELSE st.outputField,
    outputFormat |-> FormatAfter(st, a),
    outputTruncate |-> TruncateAfter(st, a),
    noTruncate |-> Truthy(a.noTruncate),
    outputFile |-> IF Truthy(a.output) THEN Str(String(a.output)) ELSE st.outputFile,
    files |-> IF Truthy(a.output) /\ String(a.output) \notin Unwritable
                THEN [f \in (DOMAIN st.files) \cup {String(a.output)} |->
                        IF f = String(a.output) THEN <<>> ELSE st.files[f]]
                ELSE st.files,
    outErr |-> Truthy(a.output) /\ String(a.output) \in Unwritable ]

\* args that carry no field, no format, no truncate and no output
Bare(a) ==
  /\ a.field.t \in {"undef", "null"}
  /\ a.format.t \in {"undef", "null"}
  /\ a.truncate.t \in {"undef", "null"}
  /\ a.output.t \in {"undef", "null"}

\* the args objects configureOutput is called with: at most MaxFlags keys present
MaxFlags == 2

ArgKeys == {"json", "quiet", "pretty", "field", "format", "truncate", "noTruncate", "output"}

ConfigureArgs ==
  { a \in [ json : {Undefined, True},
            quiet : {Undefined, True},
            pretty : {Undefined, True},
            field : {Undefined, Null, True, Str(Chars("a"))},
            format : {Undefined, True, Str(Chars("csv")), Str(Chars("YML"))},
            truncate : {Undefined, True, Str(Chars("5x"))},
            noTruncate : {Undefined, True},
            output : {Undefined, Null, True, Str(Chars("f")), Str(Chars("/ro/f"))} ] :
      Cardinality({k \in ArgKeys : a[k] # Undefined}) <= MaxFlags }

configureOutput ==
  \E a \in ConfigureArgs :
    \E n \in {Configured(OutputState, a)} :
      /\ outputJson' = n.outputJson
      /\ outputQuiet' = n.outputQuiet
      /\ outputPretty' = n.outputPretty
      /\ outputFormat' = n.outputFormat
      /\ outputTruncate' = n.outputTruncate
      /\ outputFile' = n.outputFile
      /\ noTruncate' = n.noTruncate
      /\ outputField' = n.outputField
      /\ files' = n.files
      /\ outErr' = n.outErr
      /\ lastBare' = Bare(a)
      /\ UNCHANGED <<argVars, ioVars, mainVars, reqVars, cmdVars>>

\* lines 13-20: the module state before any call
OutputDefaults ==
  /\ outputJson = FALSE
  /\ outputQuiet = FALSE
  /\ outputPretty = FALSE
  /\ outputFormat = Chars("table")
  /\ outputTruncate = Num(0)
  /\ outputFile = Null
  /\ noTruncate = FALSE
  /\ outputField = Null
  /\ files = <<>>
  /\ outErr = FALSE
  /\ lastBare = FALSE

(***************************************************************************)
(* The parts of the program that are not running.                          *)
(***************************************************************************)
\* no renderer call made yet
NoCall == [fn |-> "none", data |-> Undefined, stdout |-> <<>>, stderr |-> <<>>, files |-> <<>>]

\* the renderer has written nothing and is not under test
IoIdle ==
  /\ stdout = <<>>
  /\ stderr = <<>>
  /\ stage = "idle"
  /\ ncalls = 0
  /\ lastCall = NoCall

\* http.ts line 9: let _timeoutMs = 30000
DefaultTimeoutMs == 30000

\* the entry point is not running
MainIdle ==
  /\ mpc = "idle"
  /\ exitCode = -1
  /\ trace = <<>>
  /\ timeoutMs = Num(DefaultTimeoutMs)
  /\ sent = <<>>
  /\ err = Undefined

\* no data command is running
CmdIdle ==
  /\ cpc = "idle"
  /\ server = <<>>
  /\ calls = <<>>
  /\ loc = <<>>

\* request() has not ended
NoOutcome == [threw |-> FALSE, msg |-> "none", detail |-> Num(0)]

\* no request() call in progress
ReqIdle ==
  /\ rpc = "idle"
  /\ timer = "none"
  /\ fetches = <<>>
  /\ payments = 0
  /\ outcome = NoOutcome
  /\ nreq = 0

(***************************************************************************)
(* The argument lists parseArgs is run on.                                 *)
(***************************************************************************)
MaxArgs == 3

Tokens ==
  { Chars("x"), Chars("0"), Chars(""), Chars("--"), Chars("-5"), Chars("--5"),
    Chars("--json"), Chars("-j"), Chars("--json=x"),
    Chars("--namespace"), Chars("-n"), Chars("--namespace="), Chars("-n=x"),
    Chars("--_"),
    Chars("-jn"), Chars("-nj"), Chars("-jz"), Chars("-nn"),
    Chars("--limit"), Chars("--limit=0"), Chars("--dry-run"), Chars("--foo-bar-baz"), Chars("--top-5"),
    Chars("--a--b"), Chars("--a-B") }

ArgLists == UNION {[1..n -> Tokens] : n \in 0..MaxArgs}

ArgsStart ==
  /\ args \in ArgLists
  /\ i = 1
  /\ result = [k \in {Underscore} |-> Arr(<<>>)]
  /\ pc = "run"
  /\ cls = [k \in 1..Len(args) |-> "none"]
  /\ binds = <<>>
  /\ at = 0

InitArgs == ArgsStart /\ OutputDefaults /\ IoIdle /\ MainIdle /\ ReqIdle /\ CmdIdle

SpecArgs == InitArgs /\ [][parseArgs]_vars

\* no parse in progress: the parser variables while only the output module runs
ArgsIdle ==
  /\ args = <<>>
  /\ i = 1
  /\ result = [k \in {Underscore} |-> Arr(<<>>)]
  /\ pc = "done"
  /\ cls = <<>>
  /\ binds = <<>>
  /\ at = 0

InitOutput == ArgsIdle /\ OutputDefaults /\ IoIdle /\ MainIdle /\ ReqIdle /\ CmdIdle

SpecOutput == InitOutput /\ [][configureOutput]_vars

(***************************************************************************)
(* Properties of parseArgs.                                                *)
(***************************************************************************)
InSeq(x, s) == \E p \in 1..Len(s) : s[p] = x

\* the tokens among the first k that the loop classified as positional, in order
RECURSIVE ClassifiedPositionals(_)
ClassifiedPositionals(k) ==
  IF k = 0 THEN <<>>
  ELSE IF cls[k] = "pos" THEN Append(ClassifiedPositionals(k - 1), args[k])
  ELSE ClassifiedPositionals(k - 1)

IsLongShape(a) == StartsWith(a, <<"-", "-">>) /\ a # <<"-", "-">>

IsLongBooleanToken(a) == IsLongShape(a) /\ IndexOf(a, "=") = 0 /\ LongKey(a) \in BOOLEAN_FLAGS
IsLongValueToken(a) == IsLongShape(a) /\ IndexOf(a, "=") = 0 /\ LongKey(a) \notin BOOLEAN_FLAGS
IsShortBooleanToken(a) == Len(a) = 2 /\ ShortKnown(a) /\ ShortKey(a) \in BOOLEAN_FLAGS
IsShortValueToken(a) == Len(a) = 2 /\ ShortKnown(a) /\ ShortKey(a) \notin BOOLEAN_FLAGS
IsCombinedToken(a) == IsShortShape(a) /\ Len(a) > 2 /\ ~ShortInlineApplies(a)

\* the key a single flag token names
TokenKey(a) == IF IsLongShape(a) THEN LongKey(a) ELSE ShortKey(a)

\* a token that parseArgs reads as a flag when the cursor is on it
ParsesAsFlag(a) ==
  \/ IsLongShape(a)
  \/ /\ IsShortShape(a)
     /\ \/ ShortInlineApplies(a)
        \/ Len(a) = 2 /\ ShortKnown(a)
        \/ Len(a) > 2 /\ AllValid(Tail(a))

\* the keys a token handled as a flag binds
FlagKeys(a) ==
  IF IsLongShape(a) THEN {LongKey(a)}
  ELSE IF ShortInlineApplies(a) THEN {ShortKey(SubSeq(a, 1, IndexOf(a, "=") - 1))}
  ELSE IF Len(a) = 2 THEN {ShortKey(a)}
  ELSE {SHORT_FLAGS[Tail(a)[ci]] : ci \in 1..(Len(a) - 1)}

\* a flag token after position k binds key again (the last occurrence wins)
Rebound(k, key) ==
  \E m \in (k + 1)..Len(args) : cls[m] = "flag" /\ key \in FlagKeys(args[m])

\* the names of the value flags: the aliased flags that are not boolean
ValueFlagNames == {SHORT_FLAGS[ch] : ch \in DOMAIN SHORT_FLAGS} \ BOOLEAN_FLAGS

\* C1: parseArgs never fails: on every token list it returns, without throwing, a
\* result whose "_" is the list of the tokens it did not recognise as flags.
C1_ParseArgsNeverFails ==
  /\ pc # "thrown"
  /\ pc = "done" => result[Underscore] = Arr(ClassifiedPositionals(Len(args)))

\* C2: a boolean flag (--B or its single short alias) that is parsed as a flag and
\* is immediately followed by a token x not starting with '-' never consumes x:
\* parseArgs returns, x is among the positionals, and B is true (unless a later
\* flag token binds B again).
C2_BooleanFlagKeepsNextToken ==
  \A k \in 1..(Len(args) - 1) :
    ( /\ cls[k] = "flag"
      /\ IsLongBooleanToken(args[k]) \/ IsShortBooleanToken(args[k])
      /\ ~StartsWith(args[k + 1], <<"-">>) )
    => /\ pc # "thrown"
       /\ cls[k + 1] # "value"
       /\ pc = "done" =>
            /\ CanPush(result)
            /\ InSeq(args[k + 1], result[Underscore].a)
            /\ result[TokenKey(args[k])] = True \/ Rebound(k, TokenKey(args[k]))

\* C3 as claimed: a value flag (long, or single short alias) that is the last token
\* or is followed by a token that is itself a flag (--json, -j) is bound to true
\* and does not consume that token.
C3_ValueFlagBeforeAnyFlagIsTrue ==
  \A k \in 1..Len(args) :
    ( /\ at = k
      /\ IsLongValueToken(args[k]) \/ IsShortValueToken(args[k])
      /\ TokenKey(args[k]) \in ValueFlagNames
      /\ k = Len(args) \/ ParsesAsFlag(args[k + 1]) )
    => /\ binds = <<Bind(TokenKey(args[k]), True)>>
       /\ i = k + 1

\* what the long-flag lookahead treats as a flag: "--" and then anything but a digit
LongSeesFlag(n) ==
  Len(n) >= 2 /\ n[1] = "-" /\ n[2] = "-" /\ ~(Len(n) >= 3 /\ n[3] \in Digits)

\* what the short-flag lookahead treats as a flag: anything starting with "-"
ShortSeesFlag(n) == Len(n) >= 1 /\ n[1] = "-"

\* C3 as amended: a single short value flag is bound to true, leaving the next
\* token to be parsed in its own right, when it is last or the next token starts
\* with '-'; a long value flag only when it is last or the next token starts with
\* "--" not followed by a digit.  Any other next token, a single-dash token such
\* as -j included for a long flag, is taken as the flag's string value.
\* parseArgs(['-n', '--json']) gives namespace === true and json === true.
C3_ValueFlagLookahead ==
  /\ \A k \in 1..Len(args) :
       (at = k /\ (IsLongValueToken(args[k]) \/ IsShortValueToken(args[k])))
       => LET seesFlag == IF IsLongValueToken(args[k])
                            THEN k = Len(args) \/ LongSeesFlag(args[k + 1])
                            ELSE k = Len(args) \/ ShortSeesFlag(args[k + 1])
          IN  IF seesFlag
                THEN /\ binds = <<Bind(TokenKey(args[k]), True)>>
                     /\ i = k + 1
                     /\ k < Len(args) => cls[k + 1] = "none"
                ELSE /\ binds = <<Bind(TokenKey(args[k]), Str(args[k + 1]))>>
                     /\ i = k + 2
                     /\ cls[k + 1] = "value"
  /\ (pc = "done" /\ args = <<Chars("-n"), Chars("--json")>>)
       => result[Chars("namespace")] = True /\ result[Chars("json")] = True

C3_Witness ==
  /\ pc = "done"
  /\ args = <<Chars("-n"), Chars("--json")>>
  /\ cls = <<"flag", "flag">>
  /\ result[Chars("namespace")] = True

\* C4: parseArgs(['--V', x]) with V a value flag and x not starting with '-' binds
\* V to the string x ('0' stays the string '0'); parseArgs(['--V=x']) binds V to
\* the string x for every x, the empty string included.
C4_ValueFlagBindsString ==
  pc = "done" =>
    \A V \in ValueFlagNames :
      /\ (Len(args) = 2 /\ args[1] = <<"-", "-">> \o V /\ ~StartsWith(args[2], <<"-">>))
           => result[V] = Str(args[2])
      /\ (Len(args) = 1 /\ StartsWith(args[1], <<"-", "-">> \o V \o <<"=">>))
           => result[V] = Str(SubSeq(args[1], Len(V) + 4, Len(args[1])))

C4_Witness ==
  /\ pc = "done"
  /\ args = <<Chars("--limit"), Chars("0")>>
  /\ result[Chars("limit")] = Str(Chars("0"))

\* C5: when the loop reaches a bare "--", every token after it is appended to the
\* positionals verbatim and in order, "--" itself is not, and parsing ends there:
\* no later token is read as a flag.
C5_DashDashEscape ==
  (pc # "run" /\ at # 0 /\ args[at] = <<"-", "-">>)
  => /\ pc = "done"
     /\ result[Underscore] =
          Arr(ClassifiedPositionals(at - 1) \o SubSeq(args, at + 1, Len(args)))
     /\ binds = <<>>

\* C6: a combined short token -XYZ whose letters all resolve binds every letter
\* but the last to true, binds the last by the single-short-flag rule, and adds no
\* positional; if a letter does not resolve, the token becomes one positional and
\* binds nothing.
C6_CombinedShortFlags ==
  \A k \in 1..Len(args) :
    (at = k /\ IsCombinedToken(args[k]))
    => LET chars == Tail(args[k])
           n == Len(chars)
           lastKey == SHORT_FLAGS[chars[n]]
           takes == /\ lastKey \notin BOOLEAN_FLAGS
                    /\ k < Len(args)
                    /\ ~StartsWith(args[k + 1], <<"-">>)
       IN  IF \A ci \in 1..n : chars[ci] \in DOMAIN SHORT_FLAGS
             THEN /\ pc # "thrown"
                  /\ Len(binds) = n
                  /\ \A ci \in 1..(n - 1) : binds[ci] = Bind(SHORT_FLAGS[chars[ci]], True)
                  /\ binds[n] = Bind(lastKey, IF takes THEN Str(args[k + 1]) ELSE True)
                  /\ i = IF takes THEN k + 2 ELSE k + 1
                  /\ cls[k] = "flag"
             ELSE /\ pc # "thrown"
                  /\ binds = <<>>
                  /\ cls[k] = "pos"
                  /\ CanPush(result)
                  /\ result[Underscore].a = ClassifiedPositionals(k)
                  /\ i = k + 1

\* the raw name of a long flag token: what follows "--", up to the first "="
LongName(a) ==
  SubSeq(a, 3, IF IndexOf(a, "=") # 0 THEN IndexOf(a, "=") - 1 ELSE Len(a))

Hyphenless(s) == \A p \in 1..Len(s) : s[p] # "-"

\* a hyphenated name: words of lowercase letters and numerals joined by single hyphens
IsKebabName(name) ==
  /\ name # <<>>
  /\ \A p \in 1..Len(name) : IsLower(name[p]) \/ name[p] \in Digits \/ name[p] = "-"
  /\ name[1] # "-" /\ name[Len(name)] # "-"
  /\ \A p \in 1..(Len(name) - 1) : ~(name[p] = "-" /\ name[p + 1] = "-")

\* C7 as claimed: the key of a long flag with a hyphenated name is the name with the
\* hyphens removed (the letter after each one uppercased, numerals unchanged), so
\* the key contains no hyphen.
C7_KeyHasNoHyphen ==
  \A k \in 1..Len(args) :
    (at = k /\ IsLongShape(args[k]) /\ IsKebabName(LongName(args[k])))
    => Len(binds) = 1 /\ Hyphenless(binds[1].key)

\* the hyphens the conversion removes: those immediately followed by a lowercase letter
RemovedHyphens(name) ==
  {p \in 1..(Len(name) - 1) : name[p] = "-" /\ IsLower(name[p + 1])}

KeptPositions(name) == (1..Len(name)) \ RemovedHyphens(name)

NthKept(name, j) ==
  CHOOSE p \in KeptPositions(name) :
    Cardinality({q \in KeptPositions(name) : q <= p}) = j

\* the name with those hyphens removed and the letter after each one uppercased
ExpectedKey(name) ==
  [j \in 1..Cardinality(KeptPositions(name)) |->
     LET p == NthKept(name, j)
     IN  IF (p - 1) \in RemovedHyphens(name) THEN ToUpperCase(name[p]) ELSE name[p]]

\* C7 as amended: the key of a long flag is its name with every hyphen that is
\* immediately followed by a lowercase ASCII letter removed and that letter
\* uppercased; every other character, a hyphen followed by a digit, an uppercase
\* letter or another hyphen included, passes through unchanged.  The key is
\* hyphen-free exactly when every hyphen of the name is followed by a lowercase
\* letter, and parseArgs(['--foo-bar-baz', v]) binds fooBarBaz to v.
C7_KebabToCamelKey ==
  /\ \A k \in 1..Len(args) :
       (at = k /\ IsLongShape(args[k]))
       => LET name == LongName(args[k])
          IN  /\ Len(binds) = 1
              /\ binds[1].key = ExpectedKey(name)
              /\ Hyphenless(binds[1].key) <=>
                   \A p \in 1..Len(name) :
                     name[p] = "-" => (p < Len(name) /\ IsLower(name[p + 1]))
  /\ (pc = "done" /\ Len(args) = 2 /\ args[1] = Chars("--foo-bar-baz")
        /\ ~StartsWith(args[2], <<"-", "-">>))
       => result[Chars("fooBarBaz")] = Str(args[2])

C7_Witness ==
  /\ pc = "done"
  /\ args = <<Chars("--foo-bar-baz"), Chars("x"), Chars("--top-5")>>
  /\ result[Chars("fooBarBaz")] = Str(Chars("x"))
  /\ result[Chars("top-5")] = True

(***************************************************************************)
(* Properties of configureOutput.                                          *)
(***************************************************************************)

\* C8: in every state reached by calls of configureOutput, a configured field
\* selector implies json mode.
C8_FieldImpliesJson == outputField # Null => outputJson = TRUE

\* C9: a call whose args carry no field, no format, no truncate and no output
\* leaves no field selector, the default format (table, or json when args.json is
\* set), unlimited truncation and no output file, whatever was configured before.
C9_ConfigureResets ==
  lastBare =>
    /\ outputField = Null
    /\ outputFormat = IF outputJson THEN Chars("json") ELSE Chars("table")
    /\ outputTruncate = Num(0)
    /\ outputFile = Null

\* C10: configureOutput is idempotent: from every reachable state and for every
\* args object, a second call with the same args changes nothing.
C10_ConfigureIdempotent ==
  \A a \in ConfigureArgs :
    Configured(Configured(OutputState, a), a) = Configured(OutputState, a)

\* a configured state from which a call changes the state and its repetition does not
C10_Witness ==
  /\ outputField # Null
  /\ outputFile # Null
  /\ outputTruncate # Num(0)
  /\ \E a \in ConfigureArgs :
       /\ Configured(OutputState, a) # OutputState
       /\ Configured(Configured(OutputState, a), a) = Configured(OutputState, a)

(***************************************************************************)
(* The renderer (src/output.ts lines 59-191).  A line handed to            *)
(* console.log, console.error or fs.appendFileSync is a record: the text   *)
(* of a string (kind "text"), or the serialisation of a value by           *)
(* JSON.stringify or yaml.dump, named by the value and the indentation.    *)
(***************************************************************************)
\* one own property of an object
Prop(k, v) == [k |-> k, v |-> v]

\* an object: its own properties in insertion order
Obj(ps) == [t |-> "obj", s |-> <<>>, a |-> ps]

\* an array of values: the elements under the index keys "0", "1", ...
List(vs) == [t |-> "list", s |-> <<>>, a |-> [p \in 1..Len(vs) |-> Prop(<<DigitChars[p]>>, vs[p])]]

\* Object.keys(o)
Keys(o) == [p \in 1..Len(o.a) |-> o.a[p].k]

\* o[key]: undefined for a key o does not have
Get(o, key) ==
  IF o.t \in {"obj", "list"} /\ \E p \in 1..Len(o.a) : o.a[p].k = key
    THEN o.a[CHOOSE p \in 1..Len(o.a) : o.a[p].k = key].v
    ELSE Undefined

\* s.split(ch)
RECURSIVE Split(_, _)
Split(s, ch) ==
  IF IndexOf(s, ch) = 0 THEN <<s>>
  ELSE <<SubSeq(s, 1, IndexOf(s, ch) - 1)>> \o Split(SubSeq(s, IndexOf(s, ch) + 1, Len(s)), ch)

\* parts.join(sep)
RECURSIVE Join(_, _)
Join(parts, sep) ==
  IF parts = <<>> THEN <<>>
  ELSE IF Len(parts) = 1 THEN parts[1]
  ELSE parts[1] \o sep \o Join(Tail(parts), sep)

\* s.replace(/from/g, to) for a one-character pattern
RECURSIVE ReplaceAll(_, _, _)
ReplaceAll(s, from, to) ==
  IF s = <<>> THEN <<>>
  ELSE (IF Head(s) = from THEN to ELSE <<Head(s)>>) \o ReplaceAll(Tail(s), from, to)

\* a string written as it is
Text(s) == [kind |-> "text", pretty |-> FALSE, v |-> Str(s)]

\* a message behind the coloured mark of success ("ok"), info or warn
Marked(mark, msg) == [kind |-> mark, pretty |-> FALSE, v |-> Str(msg)]

\* indentation changes the text of a value only when it has members
HasMembers(v) == v.t \in {"obj", "list"} /\ v.a # <<>>

\* JSON.stringify(v, null, 2) when pretty, JSON.stringify(v) otherwise
JSONStringify(v, pretty) == [kind |-> "json", pretty |-> pretty /\ HasMembers(v), v |-> v]

\* yaml.dump(v, { indent: 2, lineWidth: 120 })
YamlDump(v) == [kind |-> "yaml", pretty |-> FALSE, v |-> v]

\* the streams and the file system a renderer call acts on
World == [stdout |-> stdout, stderr |-> stderr, files |-> files]

\* fs.appendFileSync(name, line + '\n')
AppendFile(fs, name, line) ==
  [f \in (DOMAIN fs) \cup {name} |->
     IF f # name THEN fs[f]
     ELSE IF name \in DOMAIN fs THEN Append(fs[name], line) ELSE <<line>>]

\* lines 59-66
outputWrite(w, line) ==
  IF Truthy(outputFile) THEN [w EXCEPT !.files = AppendFile(@, String(outputFile), line)]
  ELSE [w EXCEPT !.stdout = Append(@, line)]

\* lines 68-75
outputError(w, line) ==
  IF Truthy(outputFile) THEN [w EXCEPT !.files = AppendFile(@, String(outputFile), line)]
  ELSE [w EXCEPT !.stderr = Append(@, line)]

\* console.log(line)
ConsoleLog(w, line) == [w EXCEPT !.stdout = Append(@, line)]

\* console.error(line)
ConsoleError(w, line) == [w EXCEPT !.stderr = Append(@, line)]

\* outputWrite called on each of lines, in order
RECURSIVE WriteAll(_, _)
WriteAll(w, lines) ==
  IF lines = <<>> THEN w ELSE WriteAll(outputWrite(w, Head(lines)), Tail(lines))

\* lines 77-85: the loop over the parts of the path
RECURSIVE Walk(_, _)
Walk(val, parts) ==
  IF parts = <<>> THEN val
  ELSE IF val.t \in {"undef", "null"} THEN Undefined
  ELSE Walk(Get(val, Head(parts)), Tail(parts))

\* lines 77-85
extractField(data, field) == Walk(data, Split(field, "."))

\* typeof v === 'object'
TypeofObject(v) == v.t \in {"obj", "list", "null"}

\* lines 111-117: one cell of a csv or tsv row
Cell(val, format) ==
  LET str == IF val.t \in {"null", "undef"} THEN <<>> ELSE String(val)
  IN  IF format = Chars("csv")
        THEN IF IndexOf(str, ",") # 0 \/ IndexOf(str, "\"") # 0
               THEN <<"\"">> \o ReplaceAll(str, "\"", <<"\"", "\"">>) \o <<"\"">>
               ELSE str
        ELSE ReplaceAll(ReplaceAll(str, "\t", <<" ">>), "\n", <<" ">>)

\* lines 104-118: the header line and one line per row
SeparatedLines(data, format) ==
  LET sep == IF format = Chars("tsv") THEN <<"\t">> ELSE <<",">>
      headers == Keys(data.a[1].v)
  IN  <<Text(Join(headers, sep))>> \o
      [r \in 1..Len(data.a) |->
         Text(Join([h \in 1..Len(headers) |-> Cell(Get(data.a[r].v, headers[h]), format)], sep))]

\* lines 87-129: the lines out(data) hands to outputWrite, in order
OutLines(data) ==
  IF outputQuiet THEN <<>>
  ELSE IF Truthy(outputField)
    THEN LET val == extractField(data, String(outputField))
         IN  IF val = Undefined THEN <<>>
             ELSE IF TypeofObject(val) THEN <<JSONStringify(val, outputPretty)>>
             ELSE <<Text(String(val))>>
  ELSE IF outputJson \/ outputFormat = Chars("json") THEN <<JSONStringify(data, outputPretty)>>
  ELSE IF outputFormat = Chars("yaml") THEN <<YamlDump(data)>>
  ELSE IF outputFormat \in {Chars("csv"), Chars("tsv")}
    THEN IF data.t = "list"
           THEN IF data.a = <<>> THEN <<>> ELSE SeparatedLines(data, outputFormat)
         ELSE IF data.t = "str" THEN <<Text(data.s)>>
         ELSE <<JSONStringify(data, TRUE)>>
  ELSE IF data.t = "str" THEN <<Text(data.s)>>
  ELSE <<JSONStringify(data, TRUE)>>

\* lines 87-129
Out(w, data) == WriteAll(w, OutLines(data))

\* mutant: success without the test of outputJson
Success_IgnoresJson(w, msg) ==
  IF outputQuiet THEN w ELSE outputWrite(w, Marked("ok", msg))

\* lines 131-135
Success(w, msg) ==
  IF outputQuiet THEN w
  ELSE IF outputJson THEN w
  ELSE outputWrite(w, Marked("ok", msg))

\* lines 137-139
Warn(w, msg) == outputError(w, Marked("warn", msg))

\* lines 141-145
Info(w, msg) ==
  IF outputQuiet THEN w
  ELSE IF outputJson THEN w
  ELSE outputError(w, Marked("info", msg))

\* s.padEnd(w)
PadEnd(s, w) == IF Len(s) >= w THEN s ELSE s \o [p \in 1..(w - Len(s)) |-> " "]

\* ch.repeat(n)
Repeat(ch, n) == [p \in 1..n |-> ch]

\* String(v ?? '')
StringOrEmpty(v) == IF v.t \in {"null", "undef"} THEN <<>> ELSE String(v)

Max(S) == CHOOSE m \in S : \A n \in S : n <= m

\* a column of a table; width 0 stands for a column without a width
Column(key, label, width) == [key |-> key, label |-> label, width |-> width]

\* lines 165-167: the columns derived from the first row when none are given (<<>>)
Columns(rows, columns) ==
  IF columns # <<>> THEN columns
  ELSE LET keys == Keys(rows.a[1].v)
       IN  [c \in 1..Len(keys) |->
              Column(keys[c], [p \in 1..Len(keys[c]) |-> ToUpperCase(keys[c][p])], 0)]

\* lines 169-178: the width of a column, wide being unset
ColumnWidth(rows, col) ==
  IF col.width # 0 THEN col.width
  ELSE LET longest == Max({Len(col.label)} \cup
                          {Len(StringOrEmpty(Get(rows.a[r].v, col.key))) : r \in 1..Len(rows.a)})
       IN  IF longest < 60 THEN longest ELSE 60

\* lines 165-190: the table drawn for rows ('-' stands for the box rule, '~' for the ellipsis)
DrawnLines(rows, columns) ==
  LET cols == Columns(rows, columns)
      width == [c \in 1..Len(cols) |-> ColumnWidth(rows, cols[c])]
      cell(r, c) ==
        LET val == StringOrEmpty(Get(rows.a[r].v, cols[c].key))
        IN  IF Len(val) > width[c] THEN SubSeq(val, 1, width[c] - 1) \o <<"~">>
            ELSE PadEnd(val, width[c])
  IN  << Marked("bold", Join([c \in 1..Len(cols) |-> PadEnd(cols[c].label, width[c])], <<" ", " ">>)),
         Marked("dim", Join([c \in 1..Len(cols) |-> Repeat("-", width[c])], <<"-", "-">>)) >> \o
      [r \in 1..Len(rows.a) |-> Text(Join([c \in 1..Len(cols) |-> cell(r, c)], <<" ", " ">>))]

\* lines 147-191: the lines table(rows, columns) hands to outputWrite, in order
TableLines(rows, columns) ==
  IF rows.a = <<>> THEN <<>>
  ELSE IF outputJson \/ outputFormat = Chars("json") THEN <<JSONStringify(rows, TRUE)>>
  ELSE IF outputFormat = Chars("yaml") THEN <<YamlDump(rows)>>
  ELSE IF outputFormat \in {Chars("csv"), Chars("tsv")} THEN OutLines(rows)
  ELSE DrawnLines(rows, columns)

\* lines 147-191
Table(w, rows, columns) == WriteAll(w, TableLines(rows, columns))

(***************************************************************************)
(* The output module in use: configureOutput once, then renderer calls.    *)
(***************************************************************************)
\* the number of renderer calls in one run
MaxCalls == 2

\* the args objects the module is configured with: at most MaxFlags keys present
RenderArgs ==
  { a \in [ json : {Undefined, True},
            quiet : {Undefined, True},
            pretty : {Undefined, True},
            field : {Undefined, Str(Chars("a")), Str(Chars("a.b"))},
            format : {Undefined, Str(Chars("json")), Str(Chars("yaml")), Str(Chars("csv")),
                      Str(Chars("tsv"))},
            truncate : {Undefined},
            noTruncate : {Undefined},
            output : {Undefined, Str(Chars("f"))} ] :
      Cardinality({k \in ArgKeys : a[k] # Undefined}) <= MaxFlags }

Row1 == Obj(<<Prop(Chars("id"), Str(Chars("1"))), Prop(Chars("a"), Str(Chars("x,y")))>>)
Row2 == Obj(<<Prop(Chars("id"), Str(Chars("2"))), Prop(Chars("a"), Null)>>)

\* the payloads handed to out
RenderData ==
  { Str(Chars("x")),
    Obj(<<Prop(Chars("a"), Str(Chars("x")))>>),
    Obj(<<Prop(Chars("a"), Obj(<<Prop(Chars("b"), Str(Chars("x")))>>))>>),
    Obj(<<Prop(Chars("id"), Str(Chars("1")))>>),
    List(<<>>), List(<<Row1>>), List(<<Row1, Row2>>) }

\* the rows handed to table
TableRows == {List(<<>>), List(<<Row1>>), List(<<Row1, Row2>>)}

\* the messages handed to success, info and warn
Messages == {Chars("m")}

\* lines 23-55, called once before any renderer call
configure ==
  /\ stage = "boot"
  /\ \E a \in RenderArgs :
       \E n \in {Configured(OutputState, a)} :
         /\ outputJson' = n.outputJson
         /\ outputQuiet' = n.outputQuiet
         /\ outputPretty' = n.outputPretty
         /\ outputFormat' = n.outputFormat
         /\ outputTruncate' = n.outputTruncate
         /\ outputFile' = n.outputFile
         /\ noTruncate' = n.noTruncate
         /\ outputField' = n.outputField
         /\ files' = n.files
         /\ outErr' = n.outErr
         /\ lastBare' = Bare(a)
  /\ stage' = "ready"
  /\ UNCHANGED <<argVars, stdout, stderr, ncalls, lastCall, mainVars, reqVars, cmdVars>>

CanCall == stage = "ready" /\ ncalls < MaxCalls

\* the renderer call fn(data) has left the streams and files as w
Called(fn, data, w) ==
  /\ stdout' = w.stdout
  /\ stderr' = w.stderr
  /\ files' = w.files
  /\ lastCall' = [fn |-> fn, data |-> data, stdout |-> stdout, stderr |-> stderr, files |-> files]
  /\ ncalls' = ncalls + 1
  /\ UNCHANGED <<argVars, cfgVars, stage, mainVars, reqVars, cmdVars>>

out == CanCall /\ \E data \in RenderData : Called("out", data, Out(World, data))

success == CanCall /\ \E msg \in Messages : Called("success", Str(msg), Success(World, msg))

info == CanCall /\ \E msg \in Messages : Called("info", Str(msg), Info(World, msg))

warn == CanCall /\ \E msg \in Messages : Called("warn", Str(msg), Warn(World, msg))

table == CanCall /\ \E rows \in TableRows : Called("table", rows, Table(World, rows, <<>>))

render == configure \/ out \/ success \/ info \/ warn \/ table

\* the module loaded, not configured yet
RenderBoot ==
  /\ stdout = <<>>
  /\ stderr = <<>>
  /\ stage = "boot"
  /\ ncalls = 0
  /\ lastCall = NoCall

InitRender == ArgsIdle /\ OutputDefaults /\ RenderBoot /\ MainIdle /\ ReqIdle /\ CmdIdle

SpecRender == InitRender /\ [][render]_vars

(***************************************************************************)
(* Numbers as the handlers read and print them.  A number is held in       *)
(* thousandths; as a JavaScript value it carries its decimal text.         *)
(***************************************************************************)
\* the decimal digits of a natural number
RECURSIVE IntToChars(_)
IntToChars(n) ==
  IF n < 10 THEN <<DigitChars[n + 1]>>
  ELSE IntToChars(n \div 10) \o <<DigitChars[(n % 10) + 1]>>

\* the leading run of digits of s
RECURSIVE DigitRun(_)
DigitRun(s) ==
  IF s = <<>> \/ Head(s) \notin Digits THEN <<>> ELSE <<Head(s)>> \o DigitRun(Tail(s))

\* s without its trailing zeros
RECURSIVE StripZeros(_)
StripZeros(s) ==
  IF s # <<>> /\ s[Len(s)] = "0" THEN StripZeros(SubSeq(s, 1, Len(s) - 1)) ELSE s

\* s.trim()
RECURSIVE Trim(_)
Trim(s) ==
  IF s # <<>> /\ Head(s) = " " THEN Trim(Tail(s))
  ELSE IF s # <<>> /\ s[Len(s)] = " " THEN Trim(SubSeq(s, 1, Len(s) - 1))
  ELSE s

\* parseFloat(s), in thousandths: a sign, digits, a fraction; NaN without a digit
ParseFloat(s) ==
  LET t == Trim(s)
      neg == t # <<>> /\ Head(t) = "-"
      body == IF t # <<>> /\ Head(t) \in {"-", "+"} THEN Tail(t) ELSE t
      ip == DigitRun(body)
      rest == SubSeq(body, Len(ip) + 1, Len(body))
      fp == IF rest # <<>> /\ Head(rest) = "." THEN DigitRun(Tail(rest)) ELSE <<>>
      milli == LeadingDigits(SubSeq(fp \o <<"0", "0", "0">>, 1, 3), 0)
      abs == 1000 * LeadingDigits(ip, 0) + milli
  IN  IF ip = <<>> /\ fp = <<>> THEN NaN ELSE Num(IF neg THEN 0 - abs ELSE abs)

\* String(x) for the number x = n / 1000, n >= 0
NumberText(n) ==
  LET fp == IntToChars(1000 + (n % 1000))
  IN  IntToChars(n \div 1000) \o
      (IF n % 1000 = 0 THEN <<>> ELSE <<".">> \o StripZeros(Tail(fp)))

\* the number n / 1000 as a value
NumV(n) == [t |-> "num", s |-> NumberText(n), a |-> <<>>]

\* x.toFixed(2) for the number x = n / 1000, n >= 0
ToFixed2(n) ==
  LET h == (n + 5) \div 10
  IN  IntToChars(h \div 100) \o <<".">> \o Tail(IntToChars(100 + (h % 100)))

(***************************************************************************)
(* The command handlers cmdStore (src/commands/store.ts) and cmdList       *)
(* (src/commands/list.ts).  A handler is given the streams and files w,    *)
(* the parsed arguments and the outcome of its request() call; it yields   *)
(* the streams and files it leaves, the bodies it sent and the error it    *)
(* threw (Undefined: it returned).                                         *)
(***************************************************************************)
\* args[name]: undefined for a flag that was not given
Opt(res, name) == IF Chars(name) \in DOMAIN res THEN res[Chars(name)] ELSE Undefined

\* value != null && value !== true
GivenValue(v) == v.t \notin {"undef", "null"} /\ v # True

Returned(w, bodies) == [w |-> w, sent |-> bodies, err |-> Undefined]

Thrown(w, bodies, msg) == [w |-> w, sent |-> bodies, err |-> Str(msg)]

\* validate.ts line 5
MAX_CONTENT_LENGTH == 8192

\* the property name: value when the flag is truthy, nothing otherwise
WhenSet(res, flag, name, value) ==
  IF Truthy(Opt(res, flag)) THEN <<Prop(Chars(name), value)>> ELSE <<>>

\* store.ts lines 69-78: the request body (importance valid, tags not true)
StoreBody(content, opts) ==
  Obj( <<Prop(Chars("content"), Str(content))>>
       \o (IF GivenValue(Opt(opts, "importance"))
             THEN <<Prop(Chars("importance"), NumV(ParseFloat(String(Opt(opts, "importance"))).n))>>
             ELSE <<>>)
       \o WhenSet(opts, "tags", "metadata",
                  Obj(<<Prop(Chars("tags"),
                            List([p \in 1..Len(Split(String(Opt(opts, "tags")), ",")) |->
                                    Str(Trim(Split(String(Opt(opts, "tags")), ",")[p]))]))>>))
       \o WhenSet(opts, "namespace", "namespace", Opt(opts, "namespace"))
       \o WhenSet(opts, "memoryType", "memory_type", Opt(opts, "memoryType"))
       \o WhenSet(opts, "immutable", "immutable", True)
       \o WhenSet(opts, "pinned", "pinned", True)
       \o WhenSet(opts, "sessionId", "session_id", Opt(opts, "sessionId"))
       \o WhenSet(opts, "agentId", "agent_id", Opt(opts, "agentId"))
       \o WhenSet(opts, "expiresAt", "expires_at", Opt(opts, "expiresAt")) )

\* validate.ts lines 13-19: the importance is not a number in [0, 1]
BadImportance(v) ==
  LET n == ParseFloat(String(v)) IN n.nan \/ n.n < 0 \/ n.n > 1000

\* store.ts lines 67-87
CmdStore(w, content, opts, resp) ==
  IF Len(content) > MAX_CONTENT_LENGTH
    THEN Thrown(w, <<>>, Chars("Content exceeds the 8192 character limit (got ")
                         \o IntToChars(Len(content)) \o Chars(" chars)"))
  ELSE IF GivenValue(Opt(opts, "importance")) /\ BadImportance(Opt(opts, "importance"))
    THEN Thrown(w, <<>>, Chars("Importance must be a number between 0 and 1 (got ")
                         \o <<"\"">> \o String(Opt(opts, "importance")) \o <<"\"">> \o Chars(")"))
  ELSE IF Opt(opts, "tags") = True
    THEN Thrown(w, <<>>, Chars("opts.tags.split is not a function"))
  ELSE IF ~resp.ok THEN Thrown(w, <<StoreBody(content, opts)>>, resp.v.s)
  ELSE IF outputJson THEN Returned(Out(w, resp.v), <<StoreBody(content, opts)>>)
  ELSE LET id == Get(resp.v, Chars("id"))
           stored == Success(w, Chars("Memory stored") \o
                                (IF Truthy(id) THEN Chars(" (") \o String(id) \o Chars(")")
                                 ELSE <<>>))
       IN  Returned(IF Get(resp.v, Chars("importance")) # Undefined
                      THEN Info(stored, Chars("Importance: ")
                                        \o String(Get(resp.v, Chars("importance"))))
                      ELSE stored,
                    <<StoreBody(content, opts)>>)

\* list.ts lines 7-10: the query parameters
ListParams(opts) ==
  Obj( (IF GivenValue(Opt(opts, "limit"))
          THEN <<Prop(Chars("limit"), Str(String(Opt(opts, "limit"))))>> ELSE <<>>)
       \o (IF GivenValue(Opt(opts, "offset"))
             THEN <<Prop(Chars("offset"), Str(String(Opt(opts, "offset"))))>> ELSE <<>>)
       \o WhenSet(opts, "namespace", "namespace", Str(String(Opt(opts, "namespace")))) )

\* outputTruncate || n
TruncateOr(n) == IF outputTruncate.nan \/ outputTruncate.n = 0 THEN n ELSE outputTruncate.n

\* list.ts lines 101-107
ListColumns ==
  << Column(Chars("id"), Chars("ID"), 10),
     Column(Chars("content"), Chars("CONTENT"), TruncateOr(52)),
     Column(Chars("importance"), Chars("IMP"), 5),
     Column(Chars("tags"), Chars("TAGS"), 20),
     Column(Chars("created"), Chars("CREATED"), 12) >>

\* list.ts lines 127-140: the cell of memory m in column col
ListCell(m, col) ==
  LET val == Get(m, col.key)
      tags == Get(Get(m, Chars("metadata")), Chars("tags"))
      stamp == Get(m, col.key \o Chars("_at"))
  IN  IF col.key = Chars("content") /\ val.t = "str" /\ Len(val.s) > col.width
        THEN Str(SubSeq(val.s, 1, col.width - 1) \o <<"~">>)
      ELSE IF col.key = Chars("importance") /\ val # Undefined
        THEN Str(ToFixed2(ParseFloat(val.s).n))
      ELSE IF col.key = Chars("tags")
        THEN Str(IF tags.t = "list" THEN Join([p \in 1..Len(tags.a) |-> String(tags.a[p].v)], <<",", " ">>)
                 ELSE <<>>)
      ELSE IF col.key \in {Chars("created"), Chars("updated")} /\ Truthy(stamp)
        THEN Str(String(stamp))
      ELSE IF val.t \in {"undef", "null"} THEN Str(<<>>)
      ELSE Str(String(val))

\* list.ts lines 124-144
ListRows(memories) ==
  List([r \in 1..Len(memories.a) |->
          Obj([c \in 1..Len(ListColumns) |->
                 Prop(ListColumns[c].key, ListCell(memories.a[r].v, ListColumns[c]))])])

\* result.memories || result.data || []
Memories(res) ==
  IF Get(res, Chars("memories")).t = "list" THEN Get(res, Chars("memories"))
  ELSE IF Get(res, Chars("data")).t = "list" THEN Get(res, Chars("data"))
  ELSE List(<<>>)

\* list.ts lines 6-151, without --watch, --sort-by and --columns
CmdList(w, opts, resp) ==
  IF ~resp.ok THEN Thrown(w, <<ListParams(opts)>>, resp.v.s)
  ELSE IF outputJson THEN Returned(Out(w, resp.v), <<ListParams(opts)>>)
  ELSE IF Memories(resp.v).a = <<>>
    THEN Returned(ConsoleLog(w, Marked("dim", Chars("No memories found."))), <<ListParams(opts)>>)
  ELSE LET drawn == Table(w, ListRows(Memories(resp.v)), ListColumns)
           total == Get(resp.v, Chars("total"))
       IN  Returned(IF total # Undefined
                      THEN ConsoleLog(drawn, Marked("dim",
                             Chars("- ") \o IntToChars(Len(Memories(resp.v).a)) \o Chars(" of ")
                             \o String(total) \o Chars(" memories")))
                      ELSE drawn,
                    <<ListParams(opts)>>)

(***************************************************************************)
(* The entry point (src/unnamed/part_004, lines 40-210).                   *)
(***************************************************************************)
\* the args object as configureOutput reads it
OutputArgs(res) ==
  [ json |-> Opt(res, "json"), quiet |-> Opt(res, "quiet"), pretty |-> Opt(res, "pretty"),
    field |-> Opt(res, "field"), format |-> Opt(res, "format"),
    truncate |-> Opt(res, "truncate"), noTruncate |-> Opt(res, "noTruncate"),
    output |-> Opt(res, "output") ]

\* line 41: const [cmd, ...rest] = args._
Cmd == IF Len(result[Underscore].a) >= 1 THEN Str(result[Underscore].a[1]) ELSE Undefined

\* rest[0]
Rest0 == IF Len(result[Underscore].a) >= 2 THEN Str(result[Underscore].a[2]) ELSE Undefined

\* the values of DEFAULT_NAMESPACE (config file, environment): none, or a name
DefaultNamespaces == {Undefined, Str(Chars("ns"))}

\* the value of DEFAULT_TIMEOUT, in seconds
DefaultTimeouts == {30}

\* what readStdin() resolves to: null on a terminal or on empty input, the text otherwise
Stdins == {Null, Str(Chars("y")), Str([p \in 1..(MAX_CONTENT_LENGTH + 1) |-> "x"])}

\* the outcomes of the request of cmdStore: the parsed JSON, or the error thrown
StoreResponses ==
  { [ok |-> TRUE, v |-> Obj(<<Prop(Chars("id"), Str(Chars("1")))>>)],
    [ok |-> TRUE, v |-> Obj(<<Prop(Chars("id"), Str(Chars("1"))), Prop(Chars("importance"), NumV(500))>>)],
    [ok |-> FALSE, v |-> Str(Chars("HTTP 500"))] }

\* the outcomes of the request of cmdList
ListResponses ==
  { [ok |-> TRUE, v |-> Obj(<<Prop(Chars("memories"), List(<<>>))>>)],
    [ok |-> TRUE, v |-> Obj(<<Prop(Chars("memories"),
                                  List(<<Obj(<<Prop(Chars("id"), Str(Chars("1"))),
                                               Prop(Chars("content"), Str(Chars("x")))>>)>>)),
                            Prop(Chars("total"), NumV(1000))>>)],
    [ok |-> FALSE, v |-> Str(Chars("HTTP 500"))] }

\* mutant: configureOutput may be called again after the first call
ConfigureReady_Again == mpc \in {"parse", "flags"} /\ pc = "done"

\* line 44 is reached when parseArgs (line 40) has returned
ConfigureReady == mpc = "parse" /\ pc = "done"

\* mutant: an error thrown by configureOutput is swallowed and startup goes on
AfterConfigure_Swallowed(threw) == "flags"

\* line 44 is outside the try block: an error thrown by configureOutput is uncaught
AfterConfigure(threw) == IF threw THEN "crashed" ELSE "flags"

\* line 44: configureOutput(args)
mainConfigure ==
  /\ ConfigureReady
  /\ \E n \in {Configured(OutputState, OutputArgs(result))} :
       /\ outputJson' = n.outputJson
       /\ outputQuiet' = n.outputQuiet
       /\ outputPretty' = n.outputPretty
       /\ outputFormat' = n.outputFormat
       /\ outputTruncate' = n.outputTruncate
       /\ outputFile' = n.outputFile
       /\ noTruncate' = n.noTruncate
       /\ outputField' = n.outputField
       /\ files' = n.files
       /\ outErr' = n.outErr
       /\ lastBare' = Bare(OutputArgs(result))
       /\ mpc' = AfterConfigure(n.outErr)
       /\ exitCode' = IF n.outErr THEN 1 ELSE exitCode
       /\ stderr' = IF n.outErr THEN Append(stderr, Marked("uncaught", Chars("EACCES"))) ELSE stderr
  /\ trace' = Append(trace, "configureOutput")
  /\ UNCHANGED <<argVars, stdout, stage, ncalls, lastCall, timeoutMs, sent, err, reqVars, cmdVars>>

\* the process ends with process.exit(code), the streams left as w
Exit(code, w) ==
  /\ mpc' = "exited"
  /\ exitCode' = code
  /\ stdout' = w.stdout
  /\ stderr' = w.stderr
  /\ files' = w.files
  /\ UNCHANGED <<argVars, cfgVars, stage, ncalls, lastCall, trace, timeoutMs, sent, err, reqVars, cmdVars>>

\* lines 46-49
mainVersion ==
  /\ mpc = "flags"
  /\ Truthy(Opt(result, "version"))
  /\ Exit(0, ConsoleLog(World, Text(Chars("memoclaw VERSION"))))

\* lines 51-54
mainNoCommand ==
  /\ mpc = "flags"
  /\ ~Truthy(Opt(result, "version"))
  /\ ~Truthy(Cmd) /\ Len(result[Underscore].a) = 0
  /\ Exit(0, ConsoleLog(World, Marked("help", <<>>)))

\* lines 56-59
mainHelp ==
  /\ mpc = "flags"
  /\ ~Truthy(Opt(result, "version"))
  /\ ~(~Truthy(Cmd) /\ Len(result[Underscore].a) = 0)
  /\ Truthy(Opt(result, "help"))
  /\ Exit(0, ConsoleLog(World, Marked("help", String(Cmd))))

\* lines 61-66: the defaults, then setRequestTimeout
mainDefaults ==
  /\ mpc = "flags"
  /\ ~Truthy(Opt(result, "version"))
  /\ ~(~Truthy(Cmd) /\ Len(result[Underscore].a) = 0)
  /\ ~Truthy(Opt(result, "help"))
  /\ \E ns \in DefaultNamespaces :
       result' = IF ~Truthy(Opt(result, "namespace")) /\ Truthy(ns)
                   THEN SetKey(result, Chars("namespace"), ns) ELSE result
  /\ \E seconds \in DefaultTimeouts :
       timeoutMs' = IF Truthy(Opt(result, "timeout"))
                      THEN (IF ParseInt(Opt(result, "timeout")).nan THEN NaN
                            ELSE Num(ParseInt(Opt(result, "timeout")).n * 1000))
                      ELSE Num(seconds * 1000)
  /\ mpc' = "dispatch"
  /\ trace' = Append(trace, "defaults")
  /\ UNCHANGED <<args, i, pc, cls, binds, at, outVars, ioVars, exitCode, sent, err, reqVars, cmdVars>>

\* a handler called inside the try block has ended as h
Handled(h) ==
  /\ stdout' = h.w.stdout
  /\ stderr' = h.w.stderr
  /\ files' = h.w.files
  /\ sent' = sent \o h.sent
  /\ err' = h.err
  /\ mpc' = IF h.err = Undefined THEN "exited" ELSE "caught"
  /\ exitCode' = IF h.err = Undefined THEN 0 ELSE exitCode
  /\ trace' = Append(trace, "dispatch")
  /\ UNCHANGED <<argVars, cfgVars, stage, ncalls, lastCall, timeoutMs, reqVars, cmdVars>>

\* lines 70-86: case 'store', without --batch
caseStore ==
  /\ mpc = "dispatch"
  /\ Cmd = Str(Chars("store"))
  /\ ~Truthy(Opt(result, "batch"))
  /\ \E stdin \in Stdins, resp \in StoreResponses :
       LET given == IF Truthy(Rest0) THEN Rest0
                    ELSE IF Truthy(Opt(result, "content")) /\ Opt(result, "content") # True
                      THEN Opt(result, "content")
                    ELSE Undefined
           content == IF Truthy(given) THEN given ELSE IF Truthy(stdin) THEN stdin ELSE Undefined
       IN  IF ~Truthy(content)
             THEN Handled(Thrown(World, <<>>,
                    Chars("Content required. Provide as argument, --content flag, or pipe via stdin.")))
             ELSE Handled(CmdStore(World, content.s, result, resp))

\* lines 91-93: case 'list'
caseList ==
  /\ mpc = "dispatch"
  /\ Cmd = Str(Chars("list"))
  /\ ~Truthy(Opt(result, "watch"))
  /\ \E resp \in ListResponses : Handled(CmdList(World, result, resp))

\* status.ts lines 232-244: the request body (content within the limit, tags not true)
UpdateBody(opts) ==
  Obj( WhenSet(opts, "content", "content", Opt(opts, "content"))
       \o (IF GivenValue(Opt(opts, "importance"))
             THEN <<Prop(Chars("importance"),
                         IF ParseFloat(String(Opt(opts, "importance"))).nan THEN Null
                         ELSE NumV(ParseFloat(String(Opt(opts, "importance"))).n))>>
             ELSE <<>>)
       \o WhenSet(opts, "memoryType", "memory_type", Opt(opts, "memoryType"))
       \o WhenSet(opts, "namespace", "namespace", Opt(opts, "namespace"))
       \o WhenSet(opts, "tags", "metadata",
                  Obj(<<Prop(Chars("tags"),
                            List([p \in 1..Len(Split(String(Opt(opts, "tags")), ",")) |->
                                    Str(Trim(Split(String(Opt(opts, "tags")), ",")[p]))]))>>))
       \o WhenSet(opts, "expiresAt", "expires_at", Opt(opts, "expiresAt"))
       \o (IF Opt(opts, "pinned") # Undefined
             THEN <<Prop(Chars("pinned"),
                         IF Opt(opts, "pinned") \in {True, Str(Chars("true"))} THEN True ELSE False)>>
             ELSE <<>>) )

\* status.ts lines 231-256
CmdUpdate(w, id, opts, resp) ==
  IF Truthy(Opt(opts, "content")) /\ Len(String(Opt(opts, "content"))) > MAX_CONTENT_LENGTH
    THEN Thrown(w, <<>>, Chars("Content exceeds the 8192 character limit (got ")
                         \o IntToChars(Len(String(Opt(opts, "content")))) \o Chars(" chars)"))
  ELSE IF Opt(opts, "tags") = True
    THEN Thrown(w, <<>>, Chars("opts.tags.split is not a function"))
  ELSE IF UpdateBody(opts).a = <<>>
    THEN Thrown(w, <<>>, Chars("No fields to update. Use --content, --importance, --tags, etc."))
  ELSE IF ~resp.ok THEN Thrown(w, <<UpdateBody(opts)>>, resp.v.s)
  ELSE IF outputJson THEN Returned(Out(w, resp.v), <<UpdateBody(opts)>>)
  ELSE Returned(Success(w, Chars("Memory ") \o SubSeq(id, 1, IF Len(id) < 8 THEN Len(id) ELSE 8)
                           \o Chars("~ updated")),
                <<UpdateBody(opts)>>)

\* lines 97-100: case 'update'
caseUpdate ==
  /\ mpc = "dispatch"
  /\ Cmd = Str(Chars("update"))
  /\ \E resp \in StoreResponses :
       IF ~Truthy(Rest0)
         THEN Handled(Thrown(World, <<>>,
                Chars("Memory ID required. Usage: memoclaw update <id> --content \"new text\"")))
         ELSE Handled(CmdUpdate(World, String(Rest0), result, resp))

\* the commands of the switch (lines 69-197)
Commands == {Chars("store"), Chars("list"), Chars("update")}

\* lines 198-201: default
caseDefault ==
  /\ mpc = "dispatch"
  /\ Cmd.s \notin Commands
  /\ trace' = Append(trace, "unknown")
  /\ mpc' = "exited"
  /\ exitCode' = 1
  /\ stderr' = stderr \o << Text(Chars("Unknown command: ") \o String(Cmd)),
                            Text(Chars("Run memoclaw --help for usage.")) >>
  /\ UNCHANGED <<argVars, outVars, stdout, stage, ncalls, lastCall, timeoutMs, sent, err, reqVars, cmdVars>>

\* mutant: the catch block writing the error through the renderer
CatchLine_ViaRenderer(w, msg) ==
  IF outputJson THEN outputError(w, JSONStringify(Obj(<<Prop(Chars("error"), Str(msg))>>), FALSE))
  ELSE outputError(w, Text(Chars("Error: ") \o msg))

\* lines 204-208
CatchLine(w, msg) ==
  IF outputJson THEN ConsoleError(w, JSONStringify(Obj(<<Prop(Chars("error"), Str(msg))>>), FALSE))
  ELSE ConsoleError(w, Text(Chars("Error: ") \o msg))

\* lines 203-210
mainCatch ==
  /\ mpc = "caught"
  /\ \E w \in {CatchLine(World, err.s)} :
       /\ stdout' = w.stdout
       /\ stderr' = w.stderr
       /\ files' = w.files
  /\ mpc' = "exited"
  /\ exitCode' = 1
  /\ UNCHANGED <<argVars, cfgVars, stage, ncalls, lastCall, trace, timeoutMs, sent, err, reqVars, cmdVars>>

main ==
  \/ ShortInline \/ ShortSingle \/ CombinedShort \/ ShortUnknown
  \/ DashDash \/ LongFlag \/ Positional \/ Return
  \/ mainConfigure \/ mainVersion \/ mainNoCommand \/ mainHelp \/ mainDefaults
  \/ caseStore \/ caseList \/ caseUpdate \/ caseDefault \/ mainCatch

\* the command lines main is started with
CommandLines ==
  { <<>>,
    <<Chars("--version")>>,
    <<Chars("list"), Chars("--help")>>,
    <<Chars("bogus")>>,
    <<Chars("bogus"), Chars("--json")>>,
    <<Chars("store")>>,
    <<Chars("store"), Chars("x")>>,
    <<Chars("store"), Chars("x"), Chars("--json")>>,
    <<Chars("store"), Chars("x"), Chars("--namespace")>>,
    <<Chars("store"), Chars("x"), Chars("--tags")>>,
    <<Chars("store"), Chars("x"), Chars("-n=ns"), Chars("--tags"), Chars("a, b")>>,
    <<Chars("store"), Chars("x"), Chars("--importance"), Chars("0.5")>>,
    <<Chars("store"), Chars("x"), Chars("--importance"), Chars("2")>>,
    <<Chars("store"), Chars("x"), Chars("--output"), Chars("f")>>,
    <<Chars("store"), Chars("--"), Chars("-x")>>,
    <<Chars("list")>>,
    <<Chars("list"), Chars("-j")>>,
    <<Chars("list"), Chars("-jq")>>,
    <<Chars("list"), Chars("-z")>>,
    <<Chars("list"), Chars("--limit"), Chars("0")>>,
    <<Chars("list"), Chars("--timeout"), Chars("5")>>,
    <<Chars("list"), Chars("--timeout")>>,
    <<Chars("list"), Chars("--output"), Chars("f")>>,
    <<Chars("list"), Chars("--output")>>,
    <<Chars("list"), Chars("--output"), Chars("/ro/f")>>,
    <<Chars("update")>>,
    <<Chars("update"), Chars("1")>>,
    <<Chars("update"), Chars("1"), Chars("--content"), Chars("y")>>,
    <<Chars("update"), Chars("1"), Chars("--importance"), Chars("0.5")>>,
    <<Chars("update"), Chars("1"), Chars("--importance"), Chars("2")>>,
    <<Chars("update"), Chars("1"), Chars("--importance"), Chars("abc")>> }

\* the process started: parseArgs about to run on process.argv.slice(2)
MainStart ==
  /\ args \in CommandLines
  /\ i = 1
  /\ result = [k \in {Underscore} |-> Arr(<<>>)]
  /\ pc = "run"
  /\ cls = [k \in 1..Len(args) |-> "none"]
  /\ binds = <<>>
  /\ at = 0
  /\ mpc = "parse"
  /\ exitCode = -1
  /\ trace = <<>>
  /\ timeoutMs = Num(DefaultTimeoutMs)
  /\ sent = <<>>
  /\ err = Undefined

InitMain == MainStart /\ OutputDefaults /\ IoIdle /\ ReqIdle /\ CmdIdle

SpecMain == InitMain /\ [][main]_vars

(***************************************************************************)
(* request() of src/http.ts.  A fetch call is a record of what it was      *)
(* given (method, body, headers, abort signal) and of where it stands:     *)
(* "pending", "answered" with a status, "failed" or "aborted".  The server *)
(* and the network are the environment: they may answer a pending fetch,   *)
(* fail it, or leave it pending for ever.                                   *)
(***************************************************************************)
\* the request() calls one run makes
MaxRequests == 2

Methods == {"GET", "POST"}

\* the statuses the server answers the first and the second attempt with
FirstStatuses == {200, 402, 404}

RetryStatuses == {200, 402, 500}

\* the timeouts main hands to setRequestTimeout (NaN: parseInt of a non-number)
RequestTimeouts == {Num(5000), Num(DefaultTimeoutMs), NaN}

\* a fetch call as issued
Fetch(method, body, wallet, payment, signal) ==
  [method |-> method, body |-> body, wallet |-> wallet, payment |-> payment,
   signal |-> signal, state |-> "pending", status |-> 0]

Returns == [threw |-> FALSE, msg |-> "returned", detail |-> Num(0)]

Throws(msg, detail) == [threw |-> TRUE, msg |-> msg, detail |-> detail]

\* ensureAuth without a private key: process.exit(1), request() never returns
Exits == [threw |-> FALSE, msg |-> "exit", detail |-> Num(1)]

\* lines 92-95
FreeTierExhausted == Throws("Free tier exhausted", Num(0))

\* res.ok
Ok(status) == status >= 200 /\ status <= 299

\* the fetch that request() is waiting for
Pending == {k \in 1..Len(fetches) : fetches[k].state = "pending"}

Settle(k, state, status) ==
  [fetches EXCEPT ![k] = [@ EXCEPT !.state = state, !.status = status]]

\* line 11
setRequestTimeout(ms) ==
  /\ rpc = "idle"
  /\ nreq = 0
  /\ timeoutMs # ms
  /\ timeoutMs' = ms
  /\ UNCHANGED <<argVars, outVars, ioVars, mpc, exitCode, trace, sent, err, reqVars, cmdVars>>

\* lines 19-33: the wallet header, the abort timer and the first fetch
request(method, key) ==
  /\ rpc \in {"idle", "done"}
  /\ outcome # Exits
  /\ nreq < MaxRequests
  /\ nreq' = nreq + 1
  /\ payments' = 0
  /\ IF key
       THEN /\ rpc' = "fetching"
            /\ timer' = "armed"
            /\ fetches' = <<Fetch(method, method = "POST", TRUE, FALSE, TRUE)>>
            /\ outcome' = NoOutcome
       ELSE /\ rpc' = "done"
            /\ timer' = "none"
            /\ fetches' = <<>>
            /\ outcome' = Exits
  /\ UNCHANGED <<argVars, outVars, ioVars, mainVars, cmdVars>>

\* lines 34-46: the first fetch rejects
FetchError(code) ==
  CASE code = "ECONNREFUSED" -> Throws("Cannot connect", Num(0))
    [] code = "ENOTFOUND" -> Throws("DNS lookup failed", Num(0))
    [] code = "AbortError" -> Throws("Request timed out", timeoutMs)
    [] OTHER -> Throws("Network error", Num(0))

firstFails(code) ==
  /\ rpc = "fetching"
  /\ fetches' = Settle(1, "failed", 0)
  /\ timer' = "cleared"
  /\ outcome' = FetchError(code)
  /\ rpc' = "done"
  /\ UNCHANGED <<argVars, outVars, ioVars, mainVars, payments, nreq, cmdVars>>

\* line 29: the timer fires, controller.abort() rejects the fetches holding the signal
timerFires ==
  /\ timer = "armed"
  /\ fetches' = [k \in 1..Len(fetches) |->
                   IF fetches[k].state = "pending" /\ fetches[k].signal
                     THEN [fetches[k] EXCEPT !.state = "aborted"]
                     ELSE fetches[k]]
  /\ IF rpc = "fetching"
       THEN /\ timer' = "cleared"
            /\ outcome' = FetchError("AbortError")
            /\ rpc' = "done"
       ELSE /\ timer' = "fired"
            /\ UNCHANGED <<outcome, rpc>>
  /\ UNCHANGED <<argVars, outVars, ioVars, mainVars, payments, nreq, cmdVars>>

\* lines 47-55: the first response; a 402 body is read before the payment step
firstResponse(status, json) ==
  /\ rpc = "fetching"
  /\ fetches' = Settle(1, "answered", status)
  /\ timer' = "cleared"
  /\ IF status = 402
       THEN IF json THEN rpc' = "paying" /\ UNCHANGED outcome
            ELSE rpc' = "done" /\ outcome' = Throws("SyntaxError", Num(0))
       ELSE rpc' = "reading" /\ UNCHANGED outcome
  /\ UNCHANGED <<argVars, outVars, ioVars, mainVars, payments, nreq, cmdVars>>

\* where request() goes once the retry has been answered: line 99, whatever the status
AfterRetry_PaysAgain(status) == IF status = 402 THEN "paying" ELSE "reading"

AfterRetry(status) == "reading"

\* lines 62-80: the payment payload and the second fetch; lines 90-95 when a step throws
pay(created) ==
  /\ rpc = "paying"
  /\ IF created
       THEN /\ payments' = payments + 1
            /\ fetches' = Append(fetches, Fetch(fetches[1].method, fetches[1].body, FALSE, TRUE, FALSE))
            /\ rpc' = "retrying"
            /\ UNCHANGED outcome
       ELSE /\ outcome' = FreeTierExhausted
            /\ rpc' = "done"
            /\ UNCHANGED <<payments, fetches>>
  /\ UNCHANGED <<argVars, outVars, ioVars, mainVars, timer, nreq, cmdVars>>

\* line 76 resolves
retryResponse(status) ==
  /\ rpc = "retrying"
  /\ fetches[Len(fetches)].state = "pending"
  /\ fetches' = Settle(Len(fetches), "answered", status)
  /\ rpc' = AfterRetry(status)
  /\ UNCHANGED <<argVars, outVars, ioVars, mainVars, timer, payments, outcome, nreq, cmdVars>>

\* line 76 rejects: caught on line 90
retryFails ==
  /\ rpc = "retrying"
  /\ fetches[Len(fetches)].state = "pending"
  /\ fetches' = Settle(Len(fetches), "failed", 0)
  /\ outcome' = FreeTierExhausted
  /\ rpc' = "done"
  /\ UNCHANGED <<argVars, outVars, ioVars, mainVars, timer, payments, nreq, cmdVars>>

\* lines 99-103
readJson(json) ==
  /\ rpc = "reading"
  /\ LET res == fetches[Len(fetches)]
     IN  outcome' = IF ~json THEN Throws("SyntaxError", Num(0))
                    ELSE IF ~Ok(res.status) THEN Throws("HTTP", Num(res.status))
                    ELSE Returns
  /\ rpc' = "done"
  /\ UNCHANGED <<argVars, outVars, ioVars, mainVars, timer, fetches, payments, nreq, cmdVars>>

\* the steps request() takes by itself
proceed ==
  \/ timerFires
  \/ \E created \in BOOLEAN : pay(created)
  \/ \E json \in BOOLEAN : readJson(json)

\* the steps that are up to the server and the network
answer ==
  \/ \E code \in {"ECONNREFUSED", "ENOTFOUND", "other"} : firstFails(code)
  \/ \E status \in FirstStatuses, json \in BOOLEAN : firstResponse(status, json)
  \/ \E status \in RetryStatuses : retryResponse(status)
  \/ retryFails

http ==
  \/ \E ms \in RequestTimeouts : setRequestTimeout(ms)
  \/ \E method \in Methods, key \in BOOLEAN : request(method, key)
  \/ proceed
  \/ answer

InitRequest == ArgsIdle /\ OutputDefaults /\ IoIdle /\ MainIdle /\ ReqIdle /\ CmdIdle

SpecRequest == InitRequest /\ [][http]_vars

\* timers fire and request() takes its own steps; the server need not answer
FairRequest == SpecRequest /\ WF_vars(proceed)

(***************************************************************************)
(* Properties of the renderer.                                             *)
(***************************************************************************)
\* the streams and files before the latest renderer call
Before == [stdout |-> lastCall.stdout, stderr |-> lastCall.stderr, files |-> lastCall.files]

\* the rendering the dispatch order selects for data: the first case that matches
SelectedRendering(data) ==
  CASE Truthy(outputField) ->
         LET val == Walk(data, Split(String(outputField), "."))
         IN  IF val = Undefined THEN <<>>
             ELSE IF val.t \in {"obj", "list", "null"} THEN <<JSONStringify(val, outputPretty)>>
             ELSE <<Text(String(val))>>
    [] ~Truthy(outputField) /\ (outputJson \/ outputFormat = Chars("json")) ->
         <<JSONStringify(data, outputPretty)>>
    [] ~Truthy(outputField) /\ ~outputJson /\ outputFormat = Chars("yaml") -> <<YamlDump(data)>>
    [] ~Truthy(outputField) /\ ~outputJson /\ outputFormat \in {Chars("csv"), Chars("tsv")} ->
         IF data.t = "list" THEN (IF data.a = <<>> THEN <<>> ELSE SeparatedLines(data, outputFormat))
         ELSE IF data.t = "str" THEN <<Text(data.s)>>
         ELSE <<JSONStringify(data, TRUE)>>
    [] OTHER -> IF data.t = "str" THEN <<Text(data.s)>> ELSE <<JSONStringify(data, TRUE)>>

\* C12: every call out(data) writes the rendering the dispatch order selects for
\* data (field selector, then json, then yaml, then csv/tsv, then string or pretty
\* JSON), that rendering and nothing else.
C12_OutDispatchOrder ==
  lastCall.fn = "out" => World = WriteAll(Before, SelectedRendering(lastCall.data))

\* C13: success and info write nothing when quiet or json mode is set; json mode
\* does not suppress out (without a field selector and without quiet it writes the
\* payload as JSON); warn writes its line whether or not quiet is set.
C13_QuietAndJsonSuppression ==
  /\ lastCall.fn \in {"success", "info"} /\ (outputQuiet \/ outputJson) => World = Before
  /\ lastCall.fn = "out" /\ outputJson /\ ~outputQuiet /\ ~Truthy(outputField) =>
       World = outputWrite(Before, JSONStringify(lastCall.data, outputPretty))
  /\ lastCall.fn = "warn" => World = outputError(Before, Marked("warn", lastCall.data.s))

\* success was called in json mode without quiet and wrote nothing
C13_Witness ==
  lastCall.fn = "success" /\ outputJson /\ ~outputQuiet /\ World = Before

\* C14: when json mode or one of the formats json, yaml, csv, tsv is active (and
\* quiet is not set), table(rows) writes, for rows that are not empty, exactly what
\* out(rows) writes under the same configuration.
C14_TableDelegatesToOut ==
  ( /\ lastCall.fn = "table"
    /\ ~outputQuiet
    /\ lastCall.data.a # <<>>
    /\ outputJson \/ outputFormat \in {Chars("json"), Chars("yaml"), Chars("csv"), Chars("tsv")} )
  => World = Out(Before, lastCall.data)

(***************************************************************************)
(* Properties of the entry point.                                          *)
(***************************************************************************)
\* the positions of the startup step e in the trace
Steps(e) == {p \in 1..Len(trace) : trace[p] = e}

HandlerEnded ==
  /\ Steps("dispatch") # {}
  /\ mpc = "caught" \/ (mpc = "exited" /\ err = Undefined)

\* C15: once an output file is configured (--output with a file name), what a
\* command handler writes goes to that file: when the handler has ended nothing
\* has been written to stdout or stderr.
C15_HandlerOutputGoesToFile ==
  HandlerEnded /\ Truthy(outputFile) /\ GivenValue(Opt(result, "output"))
  => stdout = <<>> /\ stderr = <<>>

\* the request properties that carry the value of a value flag
ValueProps ==
  { Chars("importance"), Chars("namespace"), Chars("memory_type"), Chars("session_id"),
    Chars("agent_id"), Chars("expires_at"), Chars("limit"), Chars("offset") }

\* C16: a value flag given without a value (parsed as true) is never used as
\* data: it is not used as the output file name, it is not sent in a request, and
\* the handler does not fail on it (it behaves as if the flag were absent).
C16_BareValueFlagIsNotData ==
  /\ mpc \notin {"idle", "parse"} /\ Opt(result, "output") = True => outputFile = Null
  /\ \A p \in 1..Len(sent) : \A q \in 1..Len(sent[p].a) :
       sent[p].a[q].k \in ValueProps => sent[p].a[q].v # True
  /\ Opt(result, "tags") = True => err = Undefined

\* C17: when the --output file cannot be written, configureOutput throws at
\* configuration time and the process ends there with a failure: no command
\* handler is dispatched, no request is sent, nothing is written to stdout or to
\* a file.
C17_UnwritableOutputFailsFast ==
  ( /\ mpc \notin {"idle", "parse"}
    /\ Truthy(Opt(result, "output"))
    /\ String(Opt(result, "output")) \in Unwritable )
  => /\ outErr
     /\ mpc = "crashed"
     /\ exitCode = 1
     /\ Steps("dispatch") = {}
     /\ sent = <<>>
     /\ stdout = <<>>
     /\ files = <<>>

\* main was started with --output /ro/f and configureOutput threw
C17_Witness ==
  /\ Opt(result, "output") = Str(Chars("/ro/f"))
  /\ trace = <<"configureOutput">>
  /\ outErr
  /\ mpc = "crashed"

\* the report of the error message msg: plain text, or JSON in json mode
ErrorReport(msg) ==
  IF outputJson
    THEN [kind |-> "json", pretty |-> FALSE, v |-> Obj(<<Prop(Chars("error"), Str(msg))>>)]
    ELSE [kind |-> "text", pretty |-> FALSE, v |-> Str(Chars("Error: ") \o msg)]

\* C18: an error thrown by a command handler is caught by main and reported
\* exactly once on stderr, as "Error: <message>" or as {"error": message} in json
\* mode, and the process then exits with code 1; an unknown command exits with
\* code 1 as well.
C18_HandlerErrorReportedOnce ==
  /\ mpc = "caught" => err # Undefined /\ exitCode = -1 /\ ENABLED mainCatch
  /\ mpc = "exited" /\ err # Undefined => exitCode = 1 /\ stderr = <<ErrorReport(err.s)>>
  /\ Steps("unknown") # {} => mpc = "exited" /\ exitCode = 1

\* a handler threw in json mode and main has reported the error and exited
C18_Witness ==
  mpc = "exited" /\ err # Undefined /\ outputJson /\ exitCode = 1 /\ Len(stderr) = 1

(***************************************************************************)
(* Properties of request().                                                *)
(***************************************************************************)
\* the shape of the attempts of one request() call
TwoPhase ==
  /\ Len(fetches) <= 2
  /\ payments <= 1
  /\ Len(fetches) >= 1 => fetches[1].wallet /\ ~fetches[1].payment
  /\ payments = 1 => fetches[1].state = "answered" /\ fetches[1].status = 402
  /\ Len(fetches) = 2 =>
       /\ payments = 1
       /\ fetches[2].payment
       /\ fetches[2].method = fetches[1].method
       /\ fetches[2].body = fetches[1].body

\* a payment step that does not lead to the retry, or a retry that is rejected, ends the call
PaymentFailureEnds ==
  /\ rpc = "paying" /\ rpc' # "retrying" =>
       rpc' = "done" /\ outcome' = FreeTierExhausted /\ fetches' = fetches /\ payments' = payments
  /\ rpc = "retrying" /\ fetches'[Len(fetches)].state = "failed" =>
       rpc' = "done" /\ outcome' = FreeTierExhausted /\ Len(fetches') = Len(fetches)

\* C19: the first attempt of a request() call carries the wallet header and no payment;
\* a payment payload is created and a second attempt sent only after the first was
\* answered with 402; a call makes at most one payment and two fetches, and a failing
\* payment step ends it with the 'Free tier exhausted' error, without another attempt.
C19_TwoPhaseFlow == []TwoPhase /\ [][PaymentFailureEnds]_vars

\* a call that paid, whose retry was answered 402 again, and that ended without a third fetch
C19_Witness ==
  /\ rpc = "done"
  /\ payments = 1
  /\ Len(fetches) = 2
  /\ fetches[2].state = "answered" /\ fetches[2].status = 402
  /\ outcome = Throws("HTTP", Num(402))

\* a fetch that request() waits for can be cancelled by the armed timer
UnderTimeout == \A k \in Pending : fetches[k].signal /\ timer = "armed"

\* C20: every fetch request() issues is cancelled once the configured timeout elapses,
\* so a call that waits for the server ends even if the server never answers, and the
\* timer is not left armed when the call has ended.
C20_EveryFetchTimesOut ==
  /\ [](rpc = "done" => timer # "armed")
  /\ (rpc \in {"fetching", "retrying"} ~> rpc = "done")

(***************************************************************************)
(* Watch mode: cmdList (src/commands/list.ts lines 13-57) and cmdRecall    *)
(* (src/unnamed/part_009 lines 42-79).  The server holds a list of         *)
(* memories, named by their ids; other clients may add and remove          *)
(* memories between two polls.                                             *)
(***************************************************************************)
\* the polls one run is followed for
MaxPolls == 3

\* the ids of the memories the server can hold
MemoryIds == {1, 2}

\* the memory with the given id as the server returns it
MemoryOf(id) ==
  Obj(<<Prop(Chars("id"), Str(IntToChars(id))), Prop(Chars("content"), Str(Chars("x")))>>)

\* the server's answer to a listing: { memories, total }
Listing(ids) == List([k \in 1..Len(ids) |-> MemoryOf(ids[k])])

\* list.ts lines 33-39: the row of memory m
WatchRow(m) ==
  LET id == Get(m, Chars("id"))
      content == Get(m, Chars("content"))
      importance == Get(m, Chars("importance"))
  IN  Obj(<< Prop(Chars("id"),
                  IF Truthy(id) THEN Str(SubSeq(id.s, 1, IF Len(id.s) < 8 THEN Len(id.s) ELSE 8))
                  ELSE Str(Chars("?"))),
             Prop(Chars("content"),
                  IF content.t = "str" /\ Len(content.s) > TruncateOr(50)
                    THEN Str(SubSeq(content.s, 1, TruncateOr(50)) \o <<"~">>)
                  ELSE IF Truthy(content) THEN content ELSE Str(<<>>)),
             Prop(Chars("importance"),
                  IF importance.t = "num" THEN Str(ToFixed2(ParseFloat(importance.s).n))
                  ELSE Str(Chars("-"))),
             Prop(Chars("tags"), Str(<<>>)),
             Prop(Chars("created"), Str(<<>>)) >>)

WatchRows(memories) == List([r \in 1..Len(memories.a) |-> WatchRow(memories.a[r].v)])

\* the separator of list.ts line 26
Separator == Marked("dim", Repeat("-", 40))

\* list.ts lines 29-48: what one cycle of list --watch draws
DrawList(w, memories, total) ==
  IF memories.a = <<>> THEN ConsoleLog(w, Marked("dim", Chars("No memories found.")))
  ELSE ConsoleLog(Table(w, WatchRows(memories), ListColumns),
                  Marked("dim", Chars("- ") \o IntToChars(Len(memories.a)) \o Chars(" of ")
                                  \o IntToChars(total) \o Chars(" memories")))

\* part_009 lines 53-66: what one cycle of recall --watch draws
RECURSIVE DrawMemories(_, _, _)
DrawMemories(w, memories, k) ==
  IF k > Len(memories.a) THEN w
  ELSE DrawMemories(ConsoleLog(w, Text(Chars("[???] ") \o String(Get(memories.a[k].v, Chars("content"))))),
                    memories, k + 1)

DrawRecall(w, memories) ==
  IF memories.a = <<>> THEN ConsoleLog(w, Marked("dim", Chars("No memories found.")))
  ELSE ConsoleLog(DrawMemories(w, memories, 1),
                  Marked("dim", Chars("- ") \o IntToChars(Len(memories.a))
                                  \o (IF Len(memories.a) # 1 THEN Chars(" results") ELSE Chars(" result"))))

\* mutant: every successful poll counts as a change
Changed_Always(total, last) == TRUE

\* list.ts line 25, part_009 line 52: total !== lastTotal
Changed(total, last) == total # last

\* list.ts lines 14-17, part_009 lines 43-46
watchStart(cmd, interval) ==
  /\ cpc = "idle"
  /\ calls = <<>>
  /\ loc' = [cmd |-> cmd, lastTotal |-> -1,
             pollInterval |-> ParseInt(IF Truthy(interval) THEN interval ELSE Str(Chars("5000")))]
  /\ stdout' = Append(stdout, Marked("dim", Chars("Watching for changes... Press Ctrl+C to stop.")))
  /\ cpc' = "poll"
  /\ UNCHANGED <<argVars, outVars, stderr, stage, ncalls, lastCall, mainVars, reqVars, server, calls>>

\* list.ts lines 20-49, part_009 lines 47-68: one request and what is drawn from its result
watchPoll(ok) ==
  /\ cpc = "poll"
  /\ Len(calls) < MaxPolls
  /\ LET memories == Listing(server)
         total == Len(server)
         drawn == IF ~ok \/ ~Changed(total, loc.lastTotal) THEN World
                  ELSE LET w == IF loc.lastTotal >= 0 THEN ConsoleLog(World, Separator) ELSE World
                       IN  IF loc.cmd = "list" THEN DrawList(w, memories, total)
                           ELSE DrawRecall(w, memories)
     IN  /\ calls' = Append(calls, [ok |-> ok, total |-> total, seen |-> server])
         /\ loc' = IF ok /\ Changed(total, loc.lastTotal) THEN [loc EXCEPT !.lastTotal = total] ELSE loc
         /\ stdout' = drawn.stdout
         /\ stderr' = drawn.stderr
         /\ files' = drawn.files
  /\ cpc' = "sleep"
  /\ UNCHANGED <<argVars, cfgVars, stage, ncalls, lastCall, mainVars, reqVars, server>>

\* list.ts lines 51 and 54: the polling interval has passed
watchWake ==
  /\ cpc = "sleep"
  /\ cpc' = "poll"
  /\ UNCHANGED <<argVars, outVars, ioVars, mainVars, reqVars, server, calls, loc>>

\* Ctrl+C
interrupt ==
  /\ cpc \in {"poll", "sleep"}
  /\ cpc' = "killed"
  /\ UNCHANGED <<argVars, outVars, ioVars, mainVars, reqVars, server, calls, loc>>

\* another client stores a memory
serverStores(id) ==
  /\ cpc \in {"idle", "poll", "sleep"}
  /\ \A k \in 1..Len(server) : server[k] # id
  /\ server' = Append(server, id)
  /\ UNCHANGED <<argVars, outVars, ioVars, mainVars, reqVars, cpc, calls, loc>>

\* another client deletes a memory
serverDeletes(k) ==
  /\ cpc \in {"idle", "poll", "sleep"}
  /\ k \in 1..Len(server)
  /\ server' = SubSeq(server, 1, k - 1) \o SubSeq(server, k + 1, Len(server))
  /\ UNCHANGED <<argVars, outVars, ioVars, mainVars, reqVars, cpc, calls, loc>>

watch ==
  \/ \E cmd \in {"list", "recall"}, interval \in {Undefined, Str(Chars("1000")), True} :
       watchStart(cmd, interval)
  \/ \E ok \in BOOLEAN : watchPoll(ok)
  \/ watchWake
  \/ interrupt
  \/ \E id \in MemoryIds : serverStores(id)
  \/ \E k \in MemoryIds : serverDeletes(k)

InitWatch == ArgsIdle /\ OutputDefaults /\ IoIdle /\ MainIdle /\ ReqIdle /\ CmdIdle

SpecWatch == InitWatch /\ [][watch]_vars

(***************************************************************************)
(* Properties of watch mode.                                               *)
(***************************************************************************)
\* the poll made by this step, when this step is a poll
ThisPoll == calls'[Len(calls')]

IsPoll == cpc = "poll" /\ cpc' = "sleep"

\* C21 as stated: every polling cycle whose request succeeds draws the output again.
C21_RendersEveryCycle == [][IsPoll /\ ThisPoll.ok => stdout' # stdout]_vars

WatchStep ==
  /\ cpc \in {"poll", "sleep"} => cpc' \in {"poll", "sleep", "killed"}
  /\ cpc = "sleep" /\ cpc' # "killed" => cpc' = "poll" \/ cpc' = "sleep"
  /\ IsPoll =>
       /\ (stdout' # stdout) <=> (ThisPoll.ok /\ ThisPoll.total # loc.lastTotal)
       /\ loc'.lastTotal = IF ThisPoll.ok THEN ThisPoll.total ELSE loc.lastTotal
       /\ loc'.pollInterval = loc.pollInterval
  /\ cpc = "poll" /\ calls' # calls => cpc' = "sleep"

\* C21, amended: a watch loop never ends by itself, a failed poll is followed by the same
\* wait and the next poll, and a cycle draws the output again exactly when its request
\* succeeded and returned a count different from the one last drawn.
C21_WatchRendersOnChange == [][WatchStep]_vars

\* a failed poll was followed by a successful one that drew the changed listing, and a
\* later successful poll of a different listing of the same size drew nothing
C21_Witness ==
  /\ cpc = "sleep"
  /\ Len(calls) = 3
  /\ ~calls[1].ok /\ calls[2].ok /\ calls[3].ok
  /\ calls[2].seen # calls[3].seen
  /\ calls[2].total = calls[3].total
  /\ loc.lastTotal = calls[3].total

(***************************************************************************)
(* cmdPurge (src/commands/data.ts lines 99-159).  The server removes a     *)
(* memory when it answers a DELETE with success.                           *)
(***************************************************************************)
\* output.ts lines 193-197: progressBar(current, total), width 30, colours left out
ProgressBar(current, total) ==
  LET filled == IF current >= total THEN 30 ELSE (60 * current + total) \div (2 * total)
  IN  Repeat("#", filled) \o Repeat(".", 30 - filled) \o <<" ">> \o IntToChars(current)
        \o <<"/">> \o IntToChars(total)

\* data.ts line 123
MAX_CONSECUTIVE_FAILURES == 3

\* a request() call of a data command, with its outcome
\* n: the id deleted, or the number of memories listed
Call(method, n, ok) == [method |-> method, n |-> n, ok |-> ok]

\* what the user types at the prompt
Answers ==
  {Chars("yes"), Chars("YES"), Chars(" yes "), Chars("y"), Chars("no"), Chars("yes please"), <<>>}

\* the servers a purge is run against
Servers == {<<>>, <<1>>, <<1, 2>>}

\* mutant: the prompt's answer is not looked at
Declined_Never(typed) == FALSE

\* line 113: answer.trim().toLowerCase() !== 'yes'
Declined(typed) == ToLowerCase(Trim(typed)) # Chars("yes")

\* mutant: a successful DELETE leaves the count of failed batches alone
AfterDelete_NoReset(ok, failedInRow) == failedInRow

\* line 137: failedInRow = 0 after a successful DELETE
AfterDelete(ok, failedInRow) == IF ok THEN 0 ELSE failedInRow

\* lines 100-111
purgeStart(force, yes, tty) ==
  /\ cpc = "idle"
  /\ loc = <<>>
  /\ LET confirmed == Truthy(force) \/ Truthy(yes)
         frame == [force |-> force, yes |-> yes, tty |-> tty, asked |-> FALSE, answer |-> <<>>,
                   err |-> <<>>, deleted |-> 0, failedInRow |-> 0, batchDeleted |-> 0,
                   batch |-> <<>>, total |-> 0, k |-> 0]
     IN  IF confirmed THEN cpc' = "list" /\ loc' = frame /\ UNCHANGED stdout
         ELSE IF ~tty
           THEN /\ cpc' = "threw"
                /\ loc' = [frame EXCEPT !.err = Chars("Use --force or --yes to confirm purge in non-interactive mode")]
                /\ UNCHANGED stdout
         ELSE /\ cpc' = "prompt"
              /\ loc' = frame
              /\ stdout' = Append(stdout, Text(Chars("Delete ALL memories? Type \"yes\" to confirm: ")))
  /\ UNCHANGED <<argVars, outVars, stderr, stage, ncalls, lastCall, mainVars, reqVars, server, calls>>

\* lines 112-116
purgeAnswer(typed) ==
  /\ cpc = "prompt"
  /\ loc' = [loc EXCEPT !.asked = TRUE, !.answer = typed]
  /\ IF Declined(typed)
       THEN cpc' = "returned" /\ stdout' = Append(stdout, Marked("dim", Chars("Aborted.")))
       ELSE cpc' = "list" /\ UNCHANGED stdout
  /\ UNCHANGED <<argVars, outVars, stderr, stage, ncalls, lastCall, mainVars, reqVars, server, calls>>

\* lines 153-158
PurgeDone(w, deleted) ==
  LET nl == IF outputQuiet THEN w ELSE [w EXCEPT !.stderr = Append(@, Text(<<"\n">>))]
  IN  IF outputJson THEN Out(nl, Obj(<<Prop(Chars("deleted"), NumV(1000 * deleted))>>))
      ELSE Success(nl, Chars("Purged ") \o IntToChars(deleted) \o Chars(" memories"))

\* lines 126-131 (and 153-158 when the listing is empty)
purgeList(ok) ==
  /\ cpc = "list"
  /\ calls' = Append(calls, Call("GET", IF ok THEN Len(server) ELSE 0, ok))
  /\ IF ~ok
       THEN /\ cpc' = "threw"
            /\ loc' = [loc EXCEPT !.err = Chars("HTTP 500")]
            /\ UNCHANGED <<stdout, stderr, files>>
       ELSE IF server = <<>>
         THEN LET w == PurgeDone(World, loc.deleted)
              IN  /\ cpc' = "returned"
                  /\ stdout' = w.stdout /\ stderr' = w.stderr /\ files' = w.files
                  /\ UNCHANGED loc
         ELSE /\ cpc' = "delete"
              /\ loc' = [loc EXCEPT !.batch = server, !.total = Len(server), !.k = 1, !.batchDeleted = 0]
              /\ UNCHANGED <<stdout, stderr, files>>
  /\ UNCHANGED <<argVars, cfgVars, stage, ncalls, lastCall, mainVars, reqVars, server>>

\* lines 132-151 (and 153-158 on the break): one DELETE, and the end of the batch after the last
purgeDelete(ok) ==
  /\ cpc = "delete"
  /\ LET id == loc.batch[loc.k]
         deleted == IF ok THEN loc.deleted + 1 ELSE loc.deleted
         batchDeleted == IF ok THEN loc.batchDeleted + 1 ELSE loc.batchDeleted
         reset == AfterDelete(ok, loc.failedInRow)
         last == loc.k = Len(loc.batch)
         failedInRow == IF last /\ batchDeleted = 0 THEN reset + 1 ELSE reset
         abort == last /\ batchDeleted = 0 /\ failedInRow >= MAX_CONSECUTIVE_FAILURES
         bar == IF ok /\ ~outputQuiet
                  THEN [World EXCEPT !.stderr = Append(@, Marked("progress", ProgressBar(deleted, loc.total)))]
                  ELSE World
         w == IF abort
                THEN PurgeDone(Warn(bar, Chars("Aborting: 3 consecutive batches failed to delete any memories")),
                               deleted)
                ELSE bar
     IN  /\ calls' = Append(calls, Call("DELETE", id, ok))
         /\ server' = IF ok THEN SelectSeq(server, LAMBDA m : m # id) ELSE server
         /\ loc' = [loc EXCEPT !.deleted = deleted, !.batchDeleted = batchDeleted,
                               !.failedInRow = failedInRow, !.k = IF last THEN @ ELSE @ + 1]
         /\ cpc' = IF abort THEN "returned" ELSE IF last THEN "list" ELSE "delete"
         /\ stdout' = w.stdout /\ stderr' = w.stderr /\ files' = w.files
  /\ UNCHANGED <<argVars, cfgVars, stage, ncalls, lastCall, mainVars, reqVars>>

purge ==
  \/ \E force \in {Undefined, True}, yes \in {Undefined, True}, tty \in BOOLEAN :
       purgeStart(force, yes, tty)
  \/ \E typed \in Answers : purgeAnswer(typed)
  \/ \E ok \in BOOLEAN : purgeList(ok)
  \/ \E ok \in BOOLEAN : purgeDelete(ok)

\* the server before the purge
PurgeStart ==
  /\ cpc = "idle"
  /\ server \in Servers
  /\ calls = <<>>
  /\ loc = <<>>

InitPurge == ArgsIdle /\ OutputDefaults /\ IoIdle /\ MainIdle /\ ReqIdle /\ PurgeStart

SpecPurge == InitPurge /\ [][purge]_vars

\* every request() call of the handler ends, and the handler takes its next step
FairPurge == SpecPurge /\ WF_vars(purge)

(***************************************************************************)
(* Properties of cmdPurge.                                                 *)
(***************************************************************************)
Started == cpc # "idle"

ByFlag == Truthy(loc.force) \/ Truthy(loc.yes)

\* C22 as stated: no request unless --force, --yes or the answer 'yes'; without them and
\* without a terminal the handler throws; any other answer aborts with nothing deleted.
C22_NoRequestUnlessConfirmed ==
  Started =>
    /\ calls # <<>> => ByFlag \/ (loc.asked /\ loc.answer = Chars("yes"))
    /\ ~ByFlag /\ ~loc.tty => cpc = "threw" /\ calls = <<>>
    /\ ~ByFlag /\ loc.asked /\ loc.answer # Chars("yes") => cpc = "returned" /\ calls = <<>>

\* C22, amended: cmdPurge issues no request unless --force or --yes is given or the answer
\* at the prompt, trimmed and lower-cased, is 'yes'; without a flag and without a terminal
\* it throws before any request; any other answer prints 'Aborted.' and returns with no
\* request made.
C22_NoRequestUnlessConfirmedAnswer ==
  Started =>
    /\ calls # <<>> => ByFlag \/ (loc.asked /\ ToLowerCase(Trim(loc.answer)) = Chars("yes"))
    /\ ~ByFlag /\ ~loc.tty => cpc = "threw" /\ calls = <<>> /\ ~loc.asked
    /\ ~ByFlag /\ loc.asked /\ ToLowerCase(Trim(loc.answer)) # Chars("yes") =>
         /\ cpc = "returned"
         /\ calls = <<>>
         /\ stdout[Len(stdout)] = Marked("dim", Chars("Aborted."))
    /\ ByFlag => ~loc.asked

\* the prompt was answered 'no' against a server holding memories: nothing was requested
C22_Witness ==
  /\ cpc = "returned"
  /\ loc.asked /\ loc.answer = Chars("no")
  /\ server = <<1, 2>>
  /\ calls = <<>>

Lists == SelectSeq(calls, LAMBDA c : c.method = "GET")

Deletes == SelectSeq(calls, LAMBDA c : c.method = "DELETE")

\* the index of the latest DELETE that succeeded (0: none)
LastOkDelete ==
  LET hits == {k \in 1..Len(calls) : calls[k].method = "DELETE" /\ calls[k].ok}
  IN  IF hits = {} THEN 0 ELSE CHOOSE k \in hits : \A j \in hits : j <= k

\* the listings made after the latest successful DELETE
ListsSince == Cardinality({k \in 1..Len(calls) : k > LastOkDelete /\ calls[k].method = "GET"})

Ended == cpc \in {"returned", "threw"}

PurgeLoop ==
  Started /\ calls # <<>> =>
    \* an empty listing is the last call, and ends the purge
    /\ \A k \in 1..Len(calls) :
         calls[k] = Call("GET", 0, TRUE) => k = Len(calls) /\ cpc = "returned"
    \* the purge goes on while fewer than three batches in a row deleted nothing
    /\ cpc \in {"list", "delete"} =>
         loc.failedInRow < MAX_CONSECUTIVE_FAILURES /\ ListsSince <= MAX_CONSECUTIVE_FAILURES
    \* it ends otherwise only after three listings without a successful DELETE since
    /\ cpc = "returned" /\ calls[Len(calls)].method = "DELETE" =>
         /\ ~calls[Len(calls)].ok
         /\ ListsSince = MAX_CONSECUTIVE_FAILURES
         /\ loc.failedInRow = MAX_CONSECUTIVE_FAILURES
    \* when every DELETE failed the purge made exactly three listings
    /\ cpc = "returned" /\ (\A k \in 1..Len(Deletes) : ~Deletes[k].ok) /\ Deletes # <<>> =>
         Len(Lists) = MAX_CONSECUTIVE_FAILURES
    /\ loc.deleted = Len(SelectSeq(Deletes, LAMBDA c : c.ok))

\* C26: a confirmed purge stops at the first empty listing, or after three batches in a
\* row without a single successful delete (a successful delete resets the count); it
\* always ends, and when every DELETE fails it ends after exactly three listings.
C26_PurgeLoopStops ==
  /\ []PurgeLoop
  /\ (cpc \in {"list", "delete"} ~> Ended)

\* every DELETE failed: the purge ended after three listings with both memories left
C26_Witness ==
  /\ cpc = "returned"
  /\ server = <<1, 2>>
  /\ Len(Lists) = 3
  /\ Len(Deletes) = 6
  /\ loc.failedInRow = 3

(***************************************************************************)
(* Properties of cmdStore and cmdUpdate.                                   *)
(***************************************************************************)
\* the request body carries content within the limit and an importance in [0, 1]
ValidBody(body) ==
  LET content == Get(body, Chars("content"))
      importance == Get(body, Chars("importance"))
  IN  /\ content.t = "str" => Len(content.s) <= MAX_CONTENT_LENGTH
      /\ importance # Undefined =>
           /\ importance.t = "num"
           /\ ~BadImportance(importance)

\* C23: cmdStore and cmdUpdate validate before sending: with content longer than 8192
\* characters, or an importance that is not a number in [0, 1], the handler throws and
\* no request is issued, so every request sent carries valid content and importance.
C23_ValidatesBeforeSending ==
  Cmd.s \in {Chars("store"), Chars("update")} =>
    /\ \A p \in 1..Len(sent) : ValidBody(sent[p])
    /\ ( /\ HandlerEnded
         /\ GivenValue(Opt(result, "importance"))
         /\ BadImportance(Opt(result, "importance")) )
       => err # Undefined /\ sent = <<>>

(***************************************************************************)
(* truncate (src/output.ts lines 199-202).  The ellipsis is the one        *)
(* character "~".                                                          *)
(***************************************************************************)
\* the longest text truncate is applied to
MaxText == 3

\* the texts of at most n characters over a, b and the ellipsis
RECURSIVE TextsUpTo(_)
TextsUpTo(n) ==
  IF n = 0 THEN {<<>>}
  ELSE LET shorter == TextsUpTo(n - 1)
       IN  shorter \cup {Append(t, ch) : t \in shorter, ch \in {"a", "b", "~"}}

Widths == -1..(MaxText + 1)

\* mutant: text.slice(0, width) + ellipsis
truncate_KeepsWidth(text, width) ==
  IF width <= 0 \/ Len(text) <= width THEN text
  ELSE SubSeq(text, 1, width) \o <<"~">>

\* lines 199-202
truncate(text, width) ==
  IF width <= 0 \/ Len(text) <= width THEN text
  ELSE SubSeq(text, 1, width - 1) \o <<"~">>

\* truncate(text, width) is called
truncateCall(text, width) ==
  /\ cpc = "idle"
  /\ loc = <<>>
  /\ cpc' = "truncated"
  /\ loc' = [text |-> text, width |-> width, once |-> truncate(text, width), twice |-> <<>>]
  /\ UNCHANGED <<argVars, outVars, ioVars, mainVars, reqVars, server, calls>>

\* truncate is called on its own result, with the same width
truncateAgain ==
  /\ cpc = "truncated"
  /\ cpc' = "truncated twice"
  /\ loc' = [loc EXCEPT !.twice = truncate(loc.once, loc.width)]
  /\ UNCHANGED <<argVars, outVars, ioVars, mainVars, reqVars, server, calls>>

truncating ==
  \/ \E text \in TextsUpTo(MaxText), width \in Widths : truncateCall(text, width)
  \/ truncateAgain

InitTruncate == ArgsIdle /\ OutputDefaults /\ IoIdle /\ MainIdle /\ ReqIdle /\ CmdIdle

SpecTruncate == InitTruncate /\ [][truncating]_vars

\* C24: truncate(text, w) is text when w <= 0 or text has at most w characters;
\* otherwise it is the first w - 1 characters of text followed by one ellipsis, w
\* characters in all; and truncating the result again with the same w changes nothing.
C24_TruncateLengthAndIdempotence ==
  cpc \in {"truncated", "truncated twice"} =>
    /\ loc.width <= 0 \/ Len(loc.text) <= loc.width => loc.once = loc.text
    /\ loc.width > 0 /\ Len(loc.text) > loc.width =>
         /\ Len(loc.once) = loc.width
         /\ loc.once[loc.width] = "~"
         /\ \A p \in 1..(loc.width - 1) : loc.once[p] = loc.text[p]
    /\ cpc = "truncated twice" => loc.twice = loc.once

\* a text of three characters cut to two, and cut again
C24_Witness ==
  /\ cpc = "truncated twice"
  /\ loc.text = <<"a", "b", "a">>
  /\ loc.width = 2
  /\ loc.once = <<"a", "~">>
  /\ loc.twice = <<"a", "~">>

(***************************************************************************)
(* The csv rendering of out (src/output.ts lines 103-118) read back by a   *)
(* CSV reader: fields are separated by commas and records by line breaks;  *)
(* a field that starts with a double quote runs to the closing quote, a    *)
(* doubled quote inside it standing for one quote.                         *)
(***************************************************************************)
\* the most records handed to out
MaxRows == 2

\* the keys of the records
CsvKeys == {<<Chars("id")>>, <<Chars("id"), Chars("a")>>, <<Chars("a,b")>>}

\* the values of the records
CsvValues ==
  { Str(Chars("x")), Str(Chars("x,y")), Str(<<"q", "\"", "r">>), Str(<<"l", "\n", "m">>),
    Str(<<>>), Null }

\* the arrays of uniform records over the given keys
CsvData ==
  UNION { { List([r \in 1..n |-> Obj([h \in 1..Len(keys) |-> Prop(keys[h], cells[r][h])])]) :
              cells \in [1..n -> [1..Len(keys) -> CsvValues]] } :
          keys \in CsvKeys, n \in 1..MaxRows }

\* the args of --format csv
CsvArgs ==
  [ json |-> Undefined, quiet |-> Undefined, pretty |-> Undefined, field |-> Undefined,
    format |-> Str(Chars("csv")), truncate |-> Undefined, noTruncate |-> Undefined,
    output |-> Undefined ]

\* the text of a line handed to outputWrite
LineText(line) == line.v.s

\* what is written to stdout: each line followed by a line break, the last one excepted
RECURSIVE Stream(_)
Stream(lines) ==
  IF lines = <<>> THEN <<>>
  ELSE IF Len(lines) = 1 THEN LineText(lines[1])
  ELSE LineText(lines[1]) \o <<"\n">> \o Stream(Tail(lines))

\* the records of the text from position k on: quoted tells whether k is inside a quoted
\* field, field and record are the parts read so far
RECURSIVE ReadCsv(_, _, _, _, _)
ReadCsv(text, k, quoted, field, record) ==
  IF k > Len(text) THEN <<Append(record, field)>>
  ELSE LET ch == text[k]
       IN  IF quoted
             THEN IF ch = "\"" /\ k < Len(text) /\ text[k + 1] = "\""
                    THEN ReadCsv(text, k + 2, TRUE, Append(field, "\""), record)
                  ELSE IF ch = "\"" THEN ReadCsv(text, k + 1, FALSE, field, record)
                  ELSE ReadCsv(text, k + 1, TRUE, Append(field, ch), record)
           ELSE IF ch = "\"" /\ field = <<>> THEN ReadCsv(text, k + 1, TRUE, field, record)
           ELSE IF ch = "," THEN ReadCsv(text, k + 1, FALSE, <<>>, Append(record, field))
           ELSE IF ch = "\n" THEN <<Append(record, field)>> \o ReadCsv(text, k + 1, FALSE, <<>>, <<>>)
           ELSE ReadCsv(text, k + 1, FALSE, Append(field, ch), record)

ParseCsv(text) == ReadCsv(text, 1, FALSE, <<>>, <<>>)

\* configureOutput({ format: 'csv' })
csvConfigure ==
  /\ cpc = "idle"
  /\ loc = <<>>
  /\ \E n \in {Configured(OutputState, CsvArgs)} :
       /\ outputJson' = n.outputJson
       /\ outputQuiet' = n.outputQuiet
       /\ outputPretty' = n.outputPretty
       /\ outputFormat' = n.outputFormat
       /\ outputTruncate' = n.outputTruncate
       /\ outputFile' = n.outputFile
       /\ noTruncate' = n.noTruncate
       /\ outputField' = n.outputField
       /\ files' = n.files
       /\ outErr' = n.outErr
       /\ lastBare' = Bare(CsvArgs)
  /\ cpc' = "configured"
  /\ UNCHANGED <<argVars, ioVars, mainVars, reqVars, server, calls, loc>>

\* out(data)
csvOut(data) ==
  /\ cpc = "configured"
  /\ \E w \in {Out(World, data)} :
       /\ stdout' = w.stdout
       /\ stderr' = w.stderr
       /\ files' = w.files
  /\ loc' = [data |-> data, parsed |-> <<>>]
  /\ cpc' = "written"
  /\ UNCHANGED <<argVars, cfgVars, stage, ncalls, lastCall, mainVars, reqVars, server, calls>>

\* the reader reads what was written
csvRead ==
  /\ cpc = "written"
  /\ loc' = [loc EXCEPT !.parsed = ParseCsv(Stream(stdout))]
  /\ cpc' = "read"
  /\ UNCHANGED <<argVars, outVars, ioVars, mainVars, reqVars, server, calls>>

csv ==
  \/ csvConfigure
  \/ \E data \in CsvData : csvOut(data)
  \/ csvRead

InitCsv == ArgsIdle /\ OutputDefaults /\ IoIdle /\ MainIdle /\ ReqIdle /\ CmdIdle

SpecCsv == InitCsv /\ [][csv]_vars

\* the keys of the records, then the stringified values of each record
Records(data) ==
  <<Keys(data.a[1].v)>> \o
  [r \in 1..Len(data.a) |->
     [h \in 1..Len(Keys(data.a[1].v)) |->
        LET val == Get(data.a[r].v, Keys(data.a[1].v)[h])
        IN  IF val.t \in {"null", "undef"} THEN <<>> ELSE String(val)]]

\* C25: rendering an array of uniform records as csv and reading the header line and
\* the row lines back as CSV gives the keys and the stringified values of every record.
C25_CsvRoundTrip == cpc = "read" => loc.parsed = Records(loc.data)

(***************************************************************************)
(* cmdExport (src/commands/data.ts lines 10-39).  The server answers a     *)
(* listing with the memories from the offset on, at most limit of them;    *)
(* when the limit or the offset is not a positive number of memories to    *)
(* return it answers with an empty page.  Any request may fail.            *)
(***************************************************************************)
\* the requests of one export that are recorded
MaxFetches == 4

\* the servers an export is run against
ExportServers == {<<>>, <<1>>, <<1, 2>>, <<1, 2, 3>>}

\* the values of --limit
Limits == {Undefined, True, Str(Chars("1")), Str(Chars("2")), Str(Chars("0")), Str(Chars("abc"))}

\* a + b and a < b on numbers that may be NaN
Plus(a, b) == IF a.nan \/ b.nan THEN NaN ELSE Num(a.n + b.n)

LessThan(a, b) == ~a.nan /\ ~b.nan /\ a.n < b.n

\* the server's page for ?offset=&limit=
Page(offset, limit) ==
  IF offset.nan \/ limit.nan \/ limit.n < 1 \/ offset.n < 0 THEN <<>>
  ELSE SubSeq(server, offset.n + 1,
              IF offset.n + limit.n < Len(server) THEN offset.n + limit.n ELSE Len(server))

\* line 23: memories.length < limit
LastPage(page, limit) == LessThan(Num(Len(page)), limit)

\* lines 11-16
exportStart(limit) ==
  /\ cpc = "idle"
  /\ loc = <<>>
  /\ loc' = [limitText |-> String(IF Truthy(limit) THEN limit ELSE Str(Chars("1000"))),
             limit |-> ParseInt(IF Truthy(limit) THEN limit ELSE Str(Chars("1000"))),
             offset |-> Num(0), all |-> <<>>, err |-> <<>>]
  /\ cpc' = "fetch"
  /\ UNCHANGED <<argVars, outVars, ioVars, mainVars, reqVars, server, calls>>

\* a line written to stderr: a progress line ends with a carriage return (line 25), so
\* what is written after it takes its place on the terminal
Overwrite(w, line) ==
  [w EXCEPT !.stderr =
     IF @ # <<>> /\ @[Len(@)].kind = "progress" THEN Append(SubSeq(@, 1, Len(@) - 1), line)
     ELSE Append(@, line)]

\* lines 28-38
ExportDone(w, all) ==
  LET exportData == Obj(<< Prop(Chars("version"), NumV(1000)),
                           Prop(Chars("exported_at"), Str(Chars("now"))),
                           Prop(Chars("count"), NumV(1000 * Len(all))),
                           Prop(Chars("memories"), Listing(all)) >>)
      written == outputWrite(w, JSONStringify(exportData, TRUE))
  IN  IF outputQuiet THEN written
      ELSE Overwrite(written, Marked("ok", Chars("Exported ") \o IntToChars(Len(all))
                                            \o Chars(" memories")))

\* lines 18-20: the request for the page at the offset is issued
exportRequest ==
  /\ cpc = "fetch"
  /\ cpc' = "await"
  /\ UNCHANGED <<argVars, outVars, ioVars, mainVars, reqVars, server, calls, loc>>

\* lines 20-26 (and 28-38 after the break): the request ends
exportFetch(ok) ==
  /\ cpc = "await"
  /\ calls' = IF Len(calls) < MaxFetches
                THEN Append(calls, [offset |-> loc.offset, limit |-> loc.limitText, ok |-> ok,
                                    got |-> IF ok THEN Len(Page(loc.offset, loc.limit)) ELSE 0])
                ELSE calls
  /\ IF ~ok
       THEN /\ cpc' = "threw"
            /\ loc' = [loc EXCEPT !.err = Chars("HTTP 500")]
            /\ UNCHANGED <<stdout, stderr, files>>
       ELSE LET page == Page(loc.offset, loc.limit)
                all == loc.all \o page
                w == IF LastPage(page, loc.limit) THEN ExportDone(World, all)
                     ELSE IF outputQuiet THEN World
                     ELSE Overwrite(World, Marked("progress",
                             Chars("Fetched ") \o IntToChars(Len(all)) \o Chars(" memories...")))
            IN  /\ cpc' = IF LastPage(page, loc.limit) THEN "returned" ELSE "fetch"
                /\ loc' = [loc EXCEPT !.all = all,
                                      !.offset = IF LastPage(page, loc.limit) THEN @
                                                 ELSE Plus(@, loc.limit)]
                /\ stdout' = w.stdout /\ stderr' = w.stderr /\ files' = w.files
  /\ UNCHANGED <<argVars, cfgVars, stage, ncalls, lastCall, mainVars, reqVars, server>>

export ==
  \/ \E limit \in Limits : exportStart(limit)
  \/ exportRequest
  \/ \E ok \in BOOLEAN : exportFetch(ok)

ExportStart ==
  /\ cpc = "idle"
  /\ server \in ExportServers
  /\ calls = <<>>
  /\ loc = <<>>

InitExport == ArgsIdle /\ OutputDefaults /\ IoIdle /\ MainIdle /\ ReqIdle /\ ExportStart

SpecExport == InitExport /\ [][export]_vars

\* every request() call ends, and the handler takes its next step
FairExport == SpecExport /\ WF_vars(export)

(***************************************************************************)
(* Properties of cmdExport.                                                *)
(***************************************************************************)
\* the recorded requests are at offsets 0, limit, 2 limit, ..., every page before the
\* last holds limit memories, and the export counts what the pages held
Paginated ==
  cpc \in {"fetch", "await", "returned", "threw"} =>
    /\ \A k \in 1..Len(calls) :
         /\ calls[k].offset = IF loc.limit.nan /\ k > 1 THEN NaN
                              ELSE IF loc.limit.nan THEN Num(0)
                              ELSE Num((k - 1) * loc.limit.n)
         /\ calls[k].limit = loc.limitText
         /\ k < Len(calls) => calls[k].ok /\ ~LessThan(Num(calls[k].got), loc.limit)
    /\ cpc = "returned" =>
         /\ LessThan(Num(calls[Len(calls)].got), loc.limit)
         /\ stdout # <<>>
         /\ Get(stdout[Len(stdout)].v, Chars("count")) = NumV(1000 * Len(loc.all))
         /\ Get(stdout[Len(stdout)].v, Chars("memories")) = Listing(loc.all)

\* C27: cmdExport requests the pages at offsets 0, limit, 2 limit, ... and stops at the
\* first page holding fewer than limit memories; it terminates for every --limit value,
\* and the exported count is the number of memories of the fetched pages, in order.
C27_ExportPaginatesAndTerminates ==
  /\ []Paginated
  /\ (cpc = "fetch" ~> cpc \in {"returned", "threw"})

(***************************************************************************)
(* cmdImport from the parsed input on (src/commands/data.ts lines 57-97).  *)
(* Each POST /v1/store of a batch succeeds or fails on its own.            *)
(***************************************************************************)
\* the most memories in the input
MaxImport == 4

\* the values of --concurrency
Concurrencies ==
  { Undefined, True, Str(Chars("1")), Str(Chars("2")), Str(Chars("3")), Str(Chars("5")),
    Str(Chars("0")), Str(Chars("abc")) }

\* Math.min(a, b)
MathMin(a, b) == IF a.nan \/ b.nan THEN NaN ELSE IF a.n < b.n THEN a ELSE b

\* an index argument of Array.prototype.slice on an array of n elements
SliceIndex(k, n) ==
  IF k.nan THEN 0
  ELSE IF k.n < 0 THEN (IF n + k.n < 0 THEN 0 ELSE n + k.n)
  ELSE IF k.n > n THEN n ELSE k.n

\* arr.slice(from, to)
Slice(arr, from, to) == SubSeq(arr, SliceIndex(from, Len(arr)) + 1, SliceIndex(to, Len(arr)))

\* line 64
BatchOf(memories, at0, batchSize) == Slice(memories, at0, Plus(at0, batchSize))

\* lines 92-96 after line 90
ImportDone(w, imported, failed, total) ==
  LET nl == IF outputQuiet THEN w ELSE Overwrite(w, Text(<<"\n">>))
  IN  IF outputJson
        THEN Out(nl, Obj(<< Prop(Chars("imported"), NumV(1000 * imported)),
                            Prop(Chars("failed"), NumV(1000 * failed)),
                            Prop(Chars("total"), NumV(1000 * total)) >>))
      ELSE Success(nl, Chars("Imported ") \o IntToChars(imported) \o <<"/">> \o IntToChars(total)
                         \o Chars(" memories")
                         \o (IF failed # 0
                               THEN Chars(" (") \o IntToChars(failed) \o Chars(" failed)")
                             ELSE <<>>))

\* lines 57-63, and lines 90-96 when there is nothing to import
importStart(n, concurrency) ==
  /\ cpc = "idle"
  /\ loc = <<>>
  /\ LET memories == [k \in 1..n |-> k]
         parsed == IF Truthy(concurrency) THEN ParseInt(concurrency) ELSE Num(1)
         w == IF 0 < n THEN World ELSE ImportDone(World, 0, 0, 0)
     IN  /\ loc' = [memories |-> memories, batchSize |-> MathMin(parsed, Num(n)), i |-> Num(0),
                    imported |-> 0, failed |-> 0, batch |-> <<>>, batches |-> <<>>]
         /\ cpc' = IF 0 < n THEN "batch" ELSE "returned"
         /\ stdout' = w.stdout /\ stderr' = w.stderr /\ files' = w.files
  /\ UNCHANGED <<argVars, cfgVars, stage, ncalls, lastCall, mainVars, reqVars, server, calls>>

\* lines 64-75: the requests of the batch are issued
importBatch ==
  /\ cpc = "batch"
  /\ loc' = [loc EXCEPT !.batch = BatchOf(loc.memories, loc.i, loc.batchSize),
                        !.batches = IF BatchOf(loc.memories, loc.i, loc.batchSize) = <<>> THEN @
                                    ELSE Append(@, BatchOf(loc.memories, loc.i, loc.batchSize))]
  /\ cpc' = "await"
  /\ UNCHANGED <<argVars, outVars, ioVars, mainVars, reqVars, server, calls>>

\* lines 66-88, the step of line 63, and lines 90-96 after the last batch: the requests of
\* the batch have settled, those of the memories in oks successfully
importSettle(oks) ==
  /\ cpc = "await"
  /\ oks \subseteq 1..Len(loc.batch)
  /\ LET imported == loc.imported + Cardinality(oks)
         failed == loc.failed + (Len(loc.batch) - Cardinality(oks))
         next == Plus(loc.i, loc.batchSize)
         again == LessThan(next, Num(Len(loc.memories)))
         bar == IF outputQuiet THEN World
                ELSE Overwrite(World, Marked("progress", ProgressBar(imported, Len(loc.memories))))
         w == IF again THEN bar ELSE ImportDone(bar, imported, failed, Len(loc.memories))
     IN  /\ calls' = calls \o [k \in 1..Len(loc.batch) |-> Call("POST", loc.batch[k], k \in oks)]
         /\ server' = server \o SelectSeq(loc.batch, LAMBDA id : \E k \in oks : loc.batch[k] = id)
         /\ loc' = [loc EXCEPT !.imported = imported, !.failed = failed, !.i = next, !.batch = <<>>]
         /\ cpc' = IF again THEN "batch" ELSE "returned"
         /\ stdout' = w.stdout /\ stderr' = w.stderr /\ files' = w.files
  /\ UNCHANGED <<argVars, cfgVars, stage, ncalls, lastCall, mainVars, reqVars>>

import ==
  \/ \E n \in 0..MaxImport, concurrency \in Concurrencies : importStart(n, concurrency)
  \/ importBatch
  \/ \E oks \in SUBSET (1..MaxImport) : importSettle(oks)

InitImport == ArgsIdle /\ OutputDefaults /\ IoIdle /\ MainIdle /\ ReqIdle /\ CmdIdle

SpecImport == InitImport /\ [][import]_vars

\* every request() call ends, and the handler takes its next step
FairImport == SpecImport /\ WF_vars(import)

(***************************************************************************)
(* Properties of cmdImport.                                                *)
(***************************************************************************)
\* the memories a sequence of batches holds, in order
RECURSIVE Flatten(_)
Flatten(batches) == IF batches = <<>> THEN <<>> ELSE Head(batches) \o Flatten(Tail(batches))

\* the memories sent so far are the first ones of the input, each once, in batches of
\* batchSize (the last one may be shorter); at the end all were sent and counted
SentOnceInBatches ==
  cpc \in {"batch", "await", "returned"} =>
    /\ \E k \in 0..Len(loc.memories) : Flatten(loc.batches) = SubSeq(loc.memories, 1, k)
    /\ \A b \in 1..Len(loc.batches) :
         b < Len(loc.batches) => Num(Len(loc.batches[b])) = loc.batchSize
    /\ [k \in 1..Len(calls) |-> calls[k].n] \o loc.batch = Flatten(loc.batches)
    /\ cpc = "returned" =>
         /\ Flatten(loc.batches) = loc.memories
         /\ loc.imported + loc.failed = Len(loc.memories)

\* C28: cmdImport sends each memory of the input exactly once, in consecutive batches of
\* concurrency memories, and terminates with imported + failed = total, for every value of
\* --concurrency.
C28_ImportSendsEachOnceAndTerminates ==
  /\ []SentOnceInBatches
  /\ (cpc \in {"batch", "await"} ~> cpc = "returned")

(***************************************************************************)
(* Properties of parseArgs: the positional list and the cursor.            *)
(***************************************************************************)
\* an iteration that handled its token as a flag leaves result._ as it was
FlagKeepsUnderscore ==
  (pc = "run" /\ i <= Len(args) /\ cls'[i] = "flag") => result'[Underscore] = result[Underscore]

\* result._ is the array of the tokens classified as positional so far, in input order
UnderscoreIsPositionals == result[Underscore] = Arr(ClassifiedPositionals(Len(args)))

\* C29: result._ is only ever appended to by positional tokens: no flag token, whatever
\* its name, replaces or modifies it, and at every point of the parse it is the array of
\* the tokens classified as positional, in input order.
C29_OnlyPositionalsReachUnderscore ==
  /\ [][FlagKeepsUnderscore]_vars
  /\ []UnderscoreIsPositionals

\* an iteration moves the cursor forward or leaves the loop, and never touches the class
\* of a token handled before
CursorAdvances ==
  pc = "run" =>
    /\ i' > i \/ pc' # "run"
    /\ \A k \in 1..Len(args) : cls[k] # "none" => cls'[k] = cls[k]

\* the tokens before the cursor are handled, those from the cursor on are not; a value is
\* the token right after the flag that consumed it; when parseArgs has ended every token
\* is a flag token (the separator -- included), a consumed value or a positional
Accounted ==
  /\ pc = "run" => /\ \A k \in 1..Len(args) : (cls[k] # "none") <=> (k < i)
                   /\ i <= Len(args) + 1
  /\ \A k \in 1..Len(args) : cls[k] = "value" => k > 1 /\ cls[k - 1] = "flag"
  /\ pc # "run" => \A k \in 1..Len(args) : cls[k] \in {"flag", "sep", "value", "pos"}

\* C30: the cursor strictly advances on every loop iteration and every token is accounted
\* for exactly once, as a flag token, as the value consumed by the flag token right
\* before it, or as a positional; parseArgs ends after at most one iteration per token.
C30_CursorAdvancesEveryTokenOnce ==
  /\ [][CursorAdvances]_vars
  /\ []Accounted

====
